---- MODULE Spec2Model ----
(***************************************************************************)
(* Model of the TeamManagement daily performance report and of the         *)
(* useDailyTasks hook.                                                     *)
(*                                                                         *)
(*  - send_daily_performance_report (plpgsql) and the verification queries *)
(*    TEST 5/6/7 of the migration script;                                  *)
(*  - dailyPerformanceReportService.generateDailyReport /                  *)
(*    sendDailyReportToAllUsers (TypeScript service);                      *)
(*  - useDailyTasks: fetchTasks, the realtime subscription handlers and    *)
(*    deleteTask.                                                          *)
(*                                                                         *)
(* Modelling decisions                                                     *)
(*  - Time is an integer number of ticks (one tick = the resolution of a   *)
(*    timestamptz).  A millisecond, a second and a day are multiples of a  *)
(*    tick; day 0 is yesterday, day 1 is today, day 2 is tomorrow.         *)
(*  - The database session and the JavaScript runtime are in one time      *)
(*    zone, so both compute the same start of day.                         *)
(*  - tasks.status, tasks.due_date and tasks.updated_at are NOT NULL;      *)
(*    due_date is a calendar date (a day-aligned instant).                 *)
(*  - ids of members, project managers and admins are disjoint (uuid       *)
(*    primary keys).                                                       *)
(*  - A select that the store answers with an error is modelled by the     *)
(*    table's name being in faults; an insert or an HTTP POST fails        *)
(*    nondeterministically per request.                                    *)
(***************************************************************************)
EXTENDS Integers, Sequences, FiniteSets, TLC

VARIABLES
    now,                \* current time of the store and of the clients
    tasks,              \* table tasks
    deleted_tasks,      \* table deleted_tasks (sequence, in insertion order)
    members,            \* table members
    project_managers,   \* table project_managers
    admins,             \* table admins
    webhook_settings,   \* table webhook_settings, the row with id = 1
    notifications,      \* table notifications (sequence, in insertion order)
    http_posts,         \* HTTP POST requests made so far
    faults,             \* tables whose select requests return an error
    runs,               \* number of report invocations started so far
    sql_pc,             \* position of send_daily_performance_report
    sql_run,            \* number of its current or last invocation
    sql_report,         \* the counts it computed
    sql_result,         \* how its last invocation ended
    sql_trace,          \* statements it executed, in order
    svc_pc,             \* position of sendDailyReportToAllUsers
    svc_run,            \* number of its current or last call
    svc_report,         \* report returned by generateDailyReport
    svc_queue,          \* the notifications array built by the service
    svc_i,              \* loop index i of the batch loop
    svc_batches,        \* batches issued so far
    svc_result,         \* how the last call settled
    svc_log,            \* console.error calls of the last call
    user,               \* useAuth().user of the hook: "none" or [id, role]
    filters,            \* the filters argument of useDailyTasks
    daily_tasks,        \* table daily_tasks
    next_id,            \* the id the next inserted daily_tasks row gets
    taskList,           \* the hook's state `tasks`
    loading,            \* the hook's state `loading`
    error,              \* the hook's state `error`
    fetches,            \* fetchTasks calls in flight
    fetch_seq,          \* number of fetchTasks calls issued
    events,             \* realtime changes not yet delivered to the hook
    handlers,           \* INSERT/UPDATE handlers whose refetch is in flight
    db_ops,             \* number of changes made to daily_tasks
    filter_changes,     \* number of times the filters changed
    task_webhook_setting, \* webhook_settings row with setting_key task_webhook_enabled
    task_webhook_calls, \* calls of webhookService.sendTaskWebhook
    redelivered,        \* events the channel delivered a second time (by n)
    deletes_handled,    \* ids whose DELETE event the callback has handled
    updateTask_tasks,   \* `tasks` as the memoized updateTask closes over it
    update_call,        \* the last call of updateTask and what it did
    cron_job,           \* table cron.job of pg_cron
    cron_seq,           \* last jobid handed out
    setup_pc,           \* position of the setup script
    setup_runs,         \* completed runs of the setup script
    fmt_pc,             \* position of a formatReportMessage call
    fmt_byUser,         \* report.taskBreakdown.byUser of the report passed in
    fmt_original,       \* byUser as it was when the call was made
    fmt_lines,          \* the lines of the returned message
    edge_env,           \* Deno.env of the edge function: SUPABASE_URL and the key
    edge_pc,            \* position of the edge function's request handler
    edge_method,        \* req.method of the request being served
    edge_base,          \* invocations of the SQL function before the request's RPC
    edge_rpc_calls,     \* supabase.rpc calls made for the request being served
    edge_log            \* the requests served so far, with their responses

dbVars   == <<now, tasks, deleted_tasks, members, project_managers, admins,
              webhook_settings, faults>>
sqlVars  == <<sql_pc, sql_run, sql_report, sql_result, sql_trace>>
svcVars  == <<svc_pc, svc_run, svc_report, svc_queue, svc_i, svc_batches, svc_result, svc_log>>
hookVars == <<user, filters, daily_tasks, next_id, taskList, loading, error, fetches,
              fetch_seq, events, handlers, db_ops, filter_changes,
              task_webhook_setting, task_webhook_calls,
              redelivered, deletes_handled, updateTask_tasks, update_call>>
cronVars == <<cron_job, cron_seq, setup_pc, setup_runs>>
fmtVars  == <<fmt_pc, fmt_byUser, fmt_original, fmt_lines>>
edgeVars == <<edge_env, edge_pc, edge_method, edge_base, edge_rpc_calls, edge_log>>
sideVars == <<cronVars, fmtVars, edgeVars>>
vars     == <<dbVars, notifications, http_posts, runs, sqlVars, svcVars, hookVars, sideVars>>

----------------------------------------------------------------------------
(* Bounds of the model *)

TicksPerMs == 2
MsPerSec == 2
SecsPerDay == 2
MaxTasks == 2
MaxDeleted == 1
MaxRuns == 2
MaxDaily == 2
MaxOps == 2
MaxSetupRuns == 3
MaxJobId == 6
MaxUsers == 6
MaxCompleted == 2
MaxRequests == 2

(* Program constants *)

batchSize == 100
TopPerformersLimit == 5

----------------------------------------------------------------------------
(* Time *)

TicksPerSec == TicksPerMs * MsPerSec
DayTicks    == TicksPerSec * SecsPerDay

Today       == DayTicks                   \* 00:00:00.000000 of today
Tomorrow    == 2 * DayTicks

\* date_trunc('day', t); Date.setHours(0, 0, 0, 0)
DateTruncDay(t) == (t \div DayTicks) * DayTicks

\* A JavaScript Date keeps milliseconds: new Date(), new Date(str), toISOString()
JsDate(t) == (t \div TicksPerMs) * TicksPerMs

NULL == "NULL"

----------------------------------------------------------------------------
(* Helpers *)

Min(a, b) == IF a < b THEN a ELSE b

IsActive(u) == u.is_active

\* a variant without WHERE is_active = true, which the properties must tell apart
ActiveIdsIgnoringIsActive(table) == [i \in 1..Len(table) |-> table[i].id]

\* SELECT id FROM <table> WHERE is_active = true; a user table is the
\* sequence of its rows in the order the store returns them
ActiveIds(table) ==
    LET rows == SelectSeq(table, IsActive)
    IN  [i \in 1..Len(rows) |-> rows[i].id]

CountWhere(seq, P(_)) == Cardinality({i \in DOMAIN seq : P(seq[i])})

----------------------------------------------------------------------------
(* send_daily_performance_report: the counts (migration lines 25-62) *)

today_start == DateTruncDay(now)
today_end   == today_start + DayTicks - TicksPerSec

InSqlWindow(t) == t >= today_start /\ t <= today_end

total_tasks_count ==
    Cardinality({t \in tasks : InSqlWindow(t.updated_at)})

completed_count ==
    Cardinality({t \in tasks : InSqlWindow(t.updated_at) /\ t.status = "completed"})

\* a variant counting status = 'pending' only, which the properties must tell apart
pending_count_status_pending ==
    Cardinality({t \in tasks : InSqlWindow(t.updated_at) /\ t.status = "pending"})

pending_count ==
    Cardinality({t \in tasks : InSqlWindow(t.updated_at) /\ t.status # "completed"})

\* a variant without the status condition, which the properties must tell apart
blocked_count_any_status ==
    Cardinality({t \in tasks : InSqlWindow(t.updated_at) /\ t.due_date < now})

blocked_count ==
    Cardinality({t \in tasks : /\ InSqlWindow(t.updated_at)
                               /\ t.status # "completed"
                               /\ t.due_date < now})

IsRegularInSqlWindow(d) == InSqlWindow(d.deleted_at) /\ d.task_type = "regular"

IsAnyInSqlWindow(d) == InSqlWindow(d.deleted_at)

\* a variant without task_type = 'regular', which the properties must tell apart
deleted_count_any_type == CountWhere(deleted_tasks, IsAnyInSqlWindow)

deleted_count == CountWhere(deleted_tasks, IsRegularInSqlWindow)

SqlReport ==
    [totalTasks     |-> total_tasks_count,
     completedTasks |-> completed_count,
     pendingTasks   |-> pending_count,
     blockedTasks   |-> blocked_count,
     deletedTasks   |-> deleted_count]

(* TEST 6 and TEST 7 of the verification script (migration lines 263-284) *)

InTestWindow(t) == t >= DateTruncDay(now) /\ t < DateTruncDay(now) + DayTicks

Test6 ==
    LET today == {t \in tasks : InTestWindow(t.updated_at)}
    IN  [totalTasks     |-> Cardinality(today),
         completedTasks |-> Cardinality({t \in today : t.status = "completed"}),
         pendingTasks   |-> Cardinality({t \in today : t.status # "completed"}),
         blockedTasks   |-> Cardinality({t \in today : t.status # "completed"
                                                       /\ t.due_date < now})]

IsRegularInTestWindow(d) == d.task_type = "regular" /\ InTestWindow(d.deleted_at)

Test7 == CountWhere(deleted_tasks, IsRegularInTestWindow)

(* TEST 5: the users who should receive the report (migration lines 229-261) *)

Test5Total ==
    CountWhere(members, IsActive) + CountWhere(project_managers, IsActive)
    + CountWhere(admins, IsActive)

AllUserRows == members \o project_managers \o admins

ActiveUserIds ==
    {AllUserRows[i].id : i \in {j \in DOMAIN AllUserRows : AllUserRows[j].is_active}}

InactiveUserIds ==
    {AllUserRows[i].id : i \in {j \in DOMAIN AllUserRows : ~AllUserRows[j].is_active}}

----------------------------------------------------------------------------
(* send_daily_performance_report: notifications and webhook                *)
(* (migration lines 75-160)                                                *)

DefaultReportWebhookUrl == "https://n8nautomation.site/webhook/024b9c20"

ReportNotification(uid, run, src) ==
    [user_id |-> uid, type |-> "report", is_read |-> FALSE, run |-> run, src |-> src]

\* INSERT INTO notifications ... SELECT id ... FROM <table> WHERE is_active = true
InsertSelectActive(table, run) ==
    LET ids == ActiveIds(table)
    IN  [i \in 1..Len(ids) |-> ReportNotification(ids[i], run, "sql")]

\* SELECT url, is_enabled INTO webhook_url, webhook_enabled
\* FROM webhook_settings WHERE id = 1 (no row leaves both NULL)
SelectedWebhook ==
    IF ~webhook_settings.present
    THEN [url |-> NULL, is_enabled |-> NULL]
    ELSE [url |-> webhook_settings.url, is_enabled |-> webhook_settings.is_enabled]

\* IF webhook_url IS NULL OR webhook_url = '' THEN use the default, enabled
EffectiveWebhook(sel) ==
    IF sel.url = NULL \/ sel.url = ""
    THEN [url |-> DefaultReportWebhookUrl, is_enabled |-> "true"]
    ELSE sel

\* a variant without the EXCEPTION block, which the properties must tell apart
HttpFailureRaised == "raised"

\* BEGIN ... EXCEPTION WHEN OTHERS THEN RAISE NOTICE: a failed POST is caught
HttpFailureOutcome == "caught"

NotificationsOfRun(run) == SelectSeq(notifications, LAMBDA n : n.run = run)

NotificationsNotOfRun(run) == SelectSeq(notifications, LAMBDA n : n.run # run)

Idle == sql_pc = "idle" /\ svc_pc = "idle"

\* BEGIN .. the three INSERTs (lines 25-109)
SqlBegin ==
    /\ Idle
    /\ runs < MaxRuns
    /\ runs' = runs + 1
    /\ sql_run' = runs + 1
    /\ sql_report' = SqlReport
    /\ notifications' = notifications
                          \o InsertSelectActive(members, runs + 1)
                          \o InsertSelectActive(project_managers, runs + 1)
                          \o InsertSelectActive(admins, runs + 1)
    /\ sql_trace' = <<"count", "insert_members", "insert_project_managers",
                      "insert_admins">>
    /\ sql_result' = "running"
    /\ sql_pc' = "webhook"
    /\ UNCHANGED <<sideVars, dbVars, http_posts, svcVars, hookVars>>

\* webhook settings, the POST and the end of the function (lines 111-160)
SqlWebhook ==
    /\ sql_pc = "webhook"
    /\ LET hook == EffectiveWebhook(SelectedWebhook)
       IN  IF hook.is_enabled = "true"
           THEN \E ok \in BOOLEAN :
                  /\ http_posts' = Append(http_posts,
                         [url |-> hook.url, run |-> sql_run, src |-> "sql", ok |-> ok,
                          notified |-> Len(NotificationsOfRun(sql_run))])
                  /\ sql_trace' = sql_trace \o <<"select_webhook_settings", "http_post">>
                  /\ IF ok \/ HttpFailureOutcome = "caught"
                     THEN /\ sql_result' = "ok"
                          /\ UNCHANGED notifications
                     ELSE \* an uncaught exception aborts the transaction
                          /\ sql_result' = "error"
                          /\ notifications' = NotificationsNotOfRun(sql_run)
           ELSE /\ sql_trace' = Append(sql_trace, "select_webhook_settings")
                /\ sql_result' = "ok"
                /\ UNCHANGED <<http_posts, notifications>>
    /\ sql_pc' = "idle"
    /\ UNCHANGED <<sideVars, dbVars, runs, sql_run, sql_report, svcVars, hookVars>>

----------------------------------------------------------------------------
(* dailyPerformanceReportService.generateDailyReport (service lines 28-154) *)

todayStart  == JsDate(DateTruncDay(now))
todayEndStr == JsDate(DateTruncDay(now) + DayTicks - TicksPerMs)

InJsWindow(t) == t >= todayStart /\ t <= todayEndStr

\* .from('tasks').select('*').gte('updated_at', todayStart).lte('updated_at', todayEndStr)
tasksUpdatedToday == {t \in tasks : InJsWindow(t.updated_at)}

IsRegularInJsWindow(d) == d.task_type = "regular" /\ InJsWindow(d.deleted_at)

\* .from('deleted_tasks').select('*').eq('task_type', 'regular').gte(...).lte(...)
deletedTasksToday == SelectSeq(deleted_tasks, IsRegularInJsWindow)

IsBlockedJs(t) == t.status # "completed" /\ JsDate(t.due_date) < JsDate(now)

\* tasks.filter(task => task.status !== 'completed').length
PendingTasksJs(ts) == Cardinality({t \in ts : t.status # "completed"})

\* a variant that also throws on deletedError, which the properties must tell apart
GenerateThrowsOnDeletedError(tasksError, deletedError) == tasksError \/ deletedError

\* if (tasksError) throw tasksError; a deleted_tasks error is only logged
GenerateThrows(tasksError, deletedError) == tasksError

RECURSIVE RowsInQueryOrder(_)
\* the rows of a select without ORDER BY, taken in primary-key order
RowsInQueryOrder(rows) ==
    IF rows = {} THEN <<>>
    ELSE LET r == CHOOSE x \in rows : \A y \in rows : x.id <= y.id
         IN  <<r>> \o RowsInQueryOrder(rows \ {r})

\* .from(<table>).select('id, name, email').in('id', userIds); data || []
UsersDataIn(table, name, userIds) ==
    IF name \in faults THEN {}
    ELSE {table[i].id : i \in DOMAIN table} \cap userIds

\* userMap.get(userId) || { name: 'Unknown', email: '' }
UserDataName(userId, userIds) ==
    IF userId \in UsersDataIn(members, "members", userIds)
                    \cup UsersDataIn(admins, "admins", userIds)
                    \cup UsersDataIn(project_managers, "project_managers", userIds)
    THEN "name"
    ELSE "Unknown"

HasUser(userBreakdown, userId) ==
    \E i \in DOMAIN userBreakdown : userBreakdown[i].userId = userId

\* a variant that counts blocked before looking at the status, which the
\* properties must tell apart
CountTaskBlockedFirst(userStats, task) ==
    [userStats EXCEPT
        !.totalTasks = @ + 1,
        !.completed = IF task.status = "completed" THEN @ + 1 ELSE @,
        !.pending = IF task.status = "completed" THEN @ ELSE @ + 1,
        !.blocked = IF JsDate(task.due_date) < JsDate(now) THEN @ + 1 ELSE @]

\* the body of tasks.forEach after the entry exists (service lines 125-136)
CountTask(userStats, task) ==
    [userStats EXCEPT
        !.totalTasks = @ + 1,
        !.completed = IF task.status = "completed" THEN @ + 1 ELSE @,
        !.pending = IF task.status = "completed" THEN @ ELSE @ + 1,
        !.blocked = IF task.status # "completed" /\ JsDate(task.due_date) < JsDate(now)
                    THEN @ + 1 ELSE @]

\* one iteration of tasks.forEach (service lines 110-137)
AddTask(userBreakdown, task, userIds) ==
    LET withEntry ==
            IF HasUser(userBreakdown, task.user_id) THEN userBreakdown
            ELSE Append(userBreakdown,
                        [userId |-> task.user_id,
                         userName |-> UserDataName(task.user_id, userIds),
                         totalTasks |-> 0, completed |-> 0, pending |-> 0,
                         blocked |-> 0])
    IN  [i \in DOMAIN withEntry |->
            IF withEntry[i].userId = task.user_id
            THEN CountTask(withEntry[i], task)
            ELSE withEntry[i]]

RECURSIVE UserBreakdown(_, _)
\* Array.from(userBreakdown.values()) after the pass over tasks
UserBreakdown(taskSeq, userIds) ==
    IF taskSeq = <<>> THEN <<>>
    ELSE AddTask(UserBreakdown(SubSeq(taskSeq, 1, Len(taskSeq) - 1), userIds),
                 taskSeq[Len(taskSeq)], userIds)

GenerateDailyReport ==
    LET tasksError   == "tasks" \in faults
        deletedError == "deleted_tasks" \in faults
        ts           == IF tasksError THEN {} ELSE tasksUpdatedToday
        deleted      == IF deletedError THEN <<>> ELSE deletedTasksToday
    IN  IF GenerateThrows(tasksError, deletedError)
        THEN [ok |-> FALSE,
              log |-> <<"Error fetching tasks", "Error generating daily report">>]
        ELSE [ok |-> TRUE,
              log |-> IF deletedError THEN <<"Error fetching deleted tasks">> ELSE <<>>,
              report |->
                [totalTasks     |-> Cardinality(ts),
                 completedTasks |-> Cardinality({t \in ts : t.status = "completed"}),
                 pendingTasks   |-> PendingTasksJs(ts),
                 blockedTasks   |-> Cardinality({t \in ts : IsBlockedJs(t)}),
                 deletedTasks   |-> Len(deleted),
                 byUser         |-> UserBreakdown(RowsInQueryOrder(ts),
                                                  {t.user_id : t \in ts})]]

NoReport == [totalTasks |-> -1, completedTasks |-> -1, pendingTasks |-> -1,
             blockedTasks |-> -1, deletedTasks |-> -1, byUser |-> <<>>]

----------------------------------------------------------------------------
(* dailyPerformanceReportService.sendDailyReportToAllUsers                 *)
(* (service lines 159-217)                                                 *)

\* .from(<table>).select('id, name, email').eq('is_active', true); data || []
ActiveUsersData(table, name) ==
    IF name \in faults THEN <<>> ELSE ActiveIds(table)

allUsers ==
    ActiveUsersData(members, "members")
      \o ActiveUsersData(project_managers, "project_managers")
      \o ActiveUsersData(admins, "admins")

\* notifications.slice(i, i + batchSize)
BatchSlice(q, i) == SubSeq(q, i + 1, Min(i + batchSize, Len(q)))

\* a variant that throws on a batch error, which the properties must tell apart
BatchErrorStops == "throw"

\* if (error) console.error(...): the loop goes on
OnBatchError == "continue"

\* const report = await this.generateDailyReport(); ... build notifications
SvcStart ==
    /\ Idle
    /\ runs < MaxRuns
    /\ runs' = runs + 1
    /\ svc_run' = runs + 1
    /\ svc_batches' = <<>>
    /\ svc_i' = 0
    /\ LET g == GenerateDailyReport
       IN  IF ~g.ok
           THEN /\ svc_report' = NoReport
                /\ svc_queue' = <<>>
                /\ svc_log' = Append(g.log, "Error sending daily report")
                /\ svc_result' = "rejected"
                /\ svc_pc' = "idle"
           ELSE /\ svc_report' = g.report
                /\ svc_queue' = [k \in 1..Len(allUsers) |->
                                   ReportNotification(allUsers[k], runs + 1, "svc")]
                /\ svc_log' = g.log
                /\ svc_result' = "running"
                /\ svc_pc' = "batches"
    /\ UNCHANGED <<sideVars, dbVars, notifications, http_posts, sqlVars, hookVars>>

\* one pass of: for (let i = 0; i < notifications.length; i += batchSize)
SvcBatch ==
    /\ svc_pc = "batches"
    /\ svc_i < Len(svc_queue)
    /\ LET batch == BatchSlice(svc_queue, svc_i)
       IN  \E insertError \in BOOLEAN :
             /\ svc_batches' = Append(svc_batches,
                    [from |-> svc_i, size |-> Len(batch), error |-> insertError])
             /\ notifications' = IF insertError THEN notifications ELSE notifications \o batch
             /\ IF insertError /\ OnBatchError # "continue"
                THEN /\ svc_log' = svc_log \o <<"Error inserting notifications batch",
                                               "Error sending daily report">>
                     /\ svc_result' = "rejected"
                     /\ svc_pc' = "idle"
                     /\ UNCHANGED svc_i
                ELSE /\ svc_log' = IF insertError
                                   THEN Append(svc_log, "Error inserting notifications batch")
                                   ELSE svc_log
                     /\ svc_i' = svc_i + batchSize
                     /\ UNCHANGED <<svc_result, svc_pc>>
    /\ UNCHANGED <<sideVars, dbVars, http_posts, runs, sqlVars, svc_run, svc_report, svc_queue, hookVars>>

\* the loop ends: console.log and the promise resolves
SvcFinish ==
    /\ svc_pc = "batches"
    /\ svc_i >= Len(svc_queue)
    /\ svc_result' = "resolved"
    /\ svc_pc' = "idle"
    /\ UNCHANGED <<sideVars, dbVars, notifications, http_posts, runs, sqlVars, hookVars,
                   svc_run, svc_report, svc_queue, svc_i, svc_batches, svc_log>>

----------------------------------------------------------------------------
(* webhookSettingsService.getWebhookSetting and webhookService.sendTaskWebhook *)
(* (service lines 333-422 and 516-572)                                     *)

DefaultTaskWebhookUrl == "https://n8nautomation.site/webhook/9f329008"

\* a query error and a missing row both give the default, enabled setting
GetWebhookSetting ==
    IF task_webhook_setting.state \in {"error", "norow"}
    THEN [enabled |-> TRUE, url |-> DefaultTaskWebhookUrl]
    ELSE [enabled |-> task_webhook_setting.enabled, url |-> task_webhook_setting.url]

\* a variant of sendTaskWebhook that resolves true for every response, which
\* the properties must tell apart
SendTaskWebhookAnyResponse(event_type, id) ==
    LET setting == GetWebhookSetting
    IN  IF ~setting.enabled \/ setting.url = ""
        THEN /\ task_webhook_calls' = Append(task_webhook_calls,
                    [event_type |-> event_type, id |-> id, posted |-> FALSE,
                     result |-> FALSE])
             /\ UNCHANGED http_posts
        ELSE \E outcome \in {"ok", "not_ok", "throws"} :
             /\ http_posts' = Append(http_posts,
                    [url |-> setting.url, run |-> 0, src |-> event_type,
                     ok |-> outcome = "ok", notified |-> 0])
             /\ task_webhook_calls' = Append(task_webhook_calls,
                    [event_type |-> event_type, id |-> id, posted |-> TRUE,
                     result |-> outcome # "throws"])

\* sendTaskWebhook(data): resolves false without a request when disabled or
\* without url; otherwise POSTs and resolves response.ok (false when fetch throws)
SendTaskWebhook(event_type, id) ==
    LET setting == GetWebhookSetting
    IN  IF ~setting.enabled \/ setting.url = ""
        THEN /\ task_webhook_calls' = Append(task_webhook_calls,
                    [event_type |-> event_type, id |-> id, posted |-> FALSE,
                     result |-> FALSE])
             /\ UNCHANGED http_posts
        ELSE \E outcome \in {"ok", "not_ok", "throws"} :
             /\ http_posts' = Append(http_posts,
                    [url |-> setting.url, run |-> 0, src |-> event_type,
                     ok |-> outcome = "ok", notified |-> 0])
             /\ task_webhook_calls' = Append(task_webhook_calls,
                    [event_type |-> event_type, id |-> id, posted |-> TRUE,
                     result |-> outcome = "ok"])

----------------------------------------------------------------------------
(* useDailyTasks: strings and filters *)

Lower(c) == CASE c = "R" -> "r" [] c = "E" -> "e" [] c = "P" -> "p" [] OTHER -> c

\* String.prototype.toLowerCase
ToLowerCase(str) == [i \in 1..Len(str) |-> Lower(str[i])]

\* String.prototype.includes
Includes(hay, needle) ==
    \E i \in 1..(Len(hay) + 1) :
        /\ i + Len(needle) - 1 <= Len(hay)
        /\ SubSeq(hay, i, i + Len(needle) - 1) = needle

RECURSIVE LikeMatch(_, _)
\* PostgreSQL ILIKE: % matches any run of characters, _ any one character
LikeMatch(str, pattern) ==
    IF pattern = <<>> THEN str = <<>>
    ELSE IF Head(pattern) = "%"
         THEN LikeMatch(str, Tail(pattern))
              \/ (str # <<>> /\ LikeMatch(Tail(str), pattern))
         ELSE /\ str # <<>>
              /\ (Head(pattern) = "_" \/ Lower(Head(str)) = Lower(Head(pattern)))
              /\ LikeMatch(Tail(str), Tail(pattern))

\* task_name.ilike.%search% (description is NULL in every row of the model)
Ilike(str, search) == LikeMatch(str, <<"%">> \o search \o <<"%">>)

IsPrivileged(u) == u.role = "admin" \/ u.role = "project_manager"

\* the query built by fetchTasks (hook lines 28-56)
MatchesQuery(task, f, u) ==
    /\ (f.status # "" => task.status = f.status)
    /\ (f.member # 0 => task.user_id = f.member)
    /\ (f.date # "" => task.task_date = f.date)
    /\ (f.priority # "" => task.priority = f.priority)
    /\ (f.project # "" => task.project_id = f.project)
    /\ (f.search # <<>> => Ilike(task.task_name, f.search))
    /\ (~IsPrivileged(u) => task.user_id = u.id)

RECURSIVE OrderByIdDesc(_)
\* .order('created_at', { ascending: false }): ids grow with created_at
OrderByIdDesc(rows) ==
    IF rows = {} THEN <<>>
    ELSE LET r == CHOOSE x \in rows : \A y \in rows : y.id <= x.id
         IN  <<r>> \o OrderByIdDesc(rows \ {r})

FetchQueryResult(f, u) ==
    OrderByIdDesc({t \in daily_tasks : MatchesQuery(t, f, u)})

\* a variant of shouldInclude without the rule on the task's owner, which the
\* properties must tell apart
ShouldIncludeAnyOwner(task, f, u) ==
    /\ ~(f.status # "" /\ task.status # f.status)
    /\ ~(f.member # 0 /\ task.user_id # f.member)
    /\ ~(f.date # "" /\ task.task_date # f.date)
    /\ ~(f.priority # "" /\ task.priority # f.priority)
    /\ (f.search # <<>> =>
          Includes(ToLowerCase(task.task_name), ToLowerCase(f.search)))

\* shouldInclude of the realtime handlers (hook lines 271-286 and 317-332)
ShouldInclude(task, f, u) ==
    /\ ~(f.status # "" /\ task.status # f.status)
    /\ ~(f.member # 0 /\ task.user_id # f.member)
    /\ ~(f.date # "" /\ task.task_date # f.date)
    /\ ~(f.priority # "" /\ task.priority # f.priority)
    /\ (f.search # <<>> =>
          Includes(ToLowerCase(task.task_name), ToLowerCase(f.search)))
    /\ ~(u.role # "admin" /\ task.user_id # u.id)

IdsOf(list) == {list[i].id : i \in DOMAIN list}

\* a variant of the INSERT updater without the test for a task that is
\* already listed, which the properties must tell apart
InsertUpdaterUnchecked(prevTasks, newTask, f, u) ==
    IF ShouldInclude(newTask, f, u) THEN <<newTask>> \o prevTasks
    ELSE prevTasks

\* setTasks updater of the INSERT handler (hook lines 265-292)
InsertUpdater(prevTasks, newTask, f, u) ==
    IF newTask.id \in IdsOf(prevTasks) THEN prevTasks
    ELSE IF ShouldInclude(newTask, f, u) THEN <<newTask>> \o prevTasks
    ELSE prevTasks

\* setTasks updater of the UPDATE handler (hook lines 313-342)
UpdateUpdater(prevTasks, updatedTask, f, u) ==
    IF updatedTask.id \notin IdsOf(prevTasks) THEN prevTasks
    ELSE IF ShouldInclude(updatedTask, f, u)
         THEN LET taskIndex == CHOOSE i \in DOMAIN prevTasks :
                                  /\ prevTasks[i].id = updatedTask.id
                                  /\ \A j \in 1..(i - 1) : prevTasks[j].id # updatedTask.id
              IN  [prevTasks EXCEPT ![taskIndex] = updatedTask]
         ELSE SelectSeq(prevTasks, LAMBDA t : t.id # updatedTask.id)

\* setTasks updater of the DELETE handler (hook lines 346-349)
DeleteUpdater(prevTasks, deletedTaskId) ==
    SelectSeq(prevTasks, LAMBDA t : t.id # deletedTaskId)

----------------------------------------------------------------------------
(* useDailyTasks: the rows and inputs of the model *)

Statuses   == {"pending", "completed"}
TaskOwners == {1, 2}
ProjectIds == {"p1", "p2"}

DailyRow(id, owner, status, project) ==
    [id |-> id, user_id |-> owner, status |-> status, project_id |-> project,
     task_date |-> "d1", priority |-> "medium", task_name |-> <<"R", "e", "p">>]

NoFilters ==
    [status |-> "", member |-> 0, date |-> "", priority |-> "", project |-> "",
     search |-> <<>>]

FilterChoices ==
    { NoFilters,
      [NoFilters EXCEPT !.status = "completed"],
      [NoFilters EXCEPT !.member = 2],
      [NoFilters EXCEPT !.project = "p1"],
      [NoFilters EXCEPT !.date = "d2"],
      [NoFilters EXCEPT !.priority = "medium"],
      [NoFilters EXCEPT !.search = <<"r", "_", "p">>] }

NoUser == [id |-> 0, role |-> "none"]

UserChoices ==
    { NoUser,
      [id |-> 1, role |-> "member"],
      [id |-> 1001, role |-> "project_manager"],
      [id |-> 2001, role |-> "admin"] }

----------------------------------------------------------------------------
(* useDailyTasks: fetchTasks (hook lines 18-77) *)

\* calls of the returned fetchTasks made by the component itself
refetches == fetch_seq - (IF user = NoUser THEN 0 ELSE 1 + filter_changes)

\* operations on the hook, on daily_tasks and on the channel so far
OpsUsed == db_ops + filter_changes + refetches + Cardinality(redelivered)

\* the request of one fetchTasks call, answered from the table as it is now;
\* the query returns an error, or the request throws, or the rows come back
FetchRequest(f, u, seq) ==
    IF "daily_tasks" \in faults
    THEN [seq |-> seq, outcome |-> "error", data |-> <<>>]
    ELSE IF "network" \in faults
    THEN [seq |-> seq, outcome |-> "throws", data |-> <<>>]
    ELSE [seq |-> seq, outcome |-> "ok", data |-> FetchQueryResult(f, u)]

\* fetchTasks up to its await, with the filters f of the render that made it
FetchTasksCall(f) ==
    IF user = NoUser
    THEN /\ loading' = FALSE
         /\ UNCHANGED <<error, fetches, fetch_seq>>
    ELSE /\ loading' = TRUE
         /\ error' = NULL
         /\ fetches' = fetches \cup {FetchRequest(f, user, fetch_seq + 1)}
         /\ fetch_seq' = fetch_seq + 1

\* a caller invokes the fetchTasks the hook returns
FetchTasks ==
    /\ OpsUsed < MaxOps
    /\ FetchTasksCall(filters)
    /\ UNCHANGED <<sideVars, redelivered, deletes_handled, updateTask_tasks,
                   update_call, dbVars, notifications, http_posts, runs, sqlVars, svcVars,
                   user, filters, daily_tasks, next_id, taskList, events, handlers,
                   db_ops, filter_changes, task_webhook_setting, task_webhook_calls>>

\* a variant of the end of fetchTasks whose catch block keeps the list, which
\* the properties must tell apart
FetchDoneKeepsListOnThrow(r) ==
    /\ r \in fetches
    /\ fetches' = fetches \ {r}
    /\ IF r.outcome = "error"
       THEN /\ error' = "Failed to fetch daily tasks"
            /\ taskList' = <<>>
       ELSE IF r.outcome = "throws"
       THEN /\ error' = "Failed to fetch daily tasks"
            /\ UNCHANGED taskList
       ELSE /\ taskList' = r.data
            /\ UNCHANGED error
    /\ loading' = FALSE
    /\ UNCHANGED <<sideVars, redelivered, deletes_handled, updateTask_tasks,
                   update_call, dbVars, notifications, http_posts, runs, sqlVars, svcVars,
                   user, filters, daily_tasks, next_id, fetch_seq, events, handlers,
                   db_ops, filter_changes, task_webhook_setting, task_webhook_calls>>

\* the response of a fetchTasks call arrives (hook lines 58-76)
FetchDone(r) ==
    /\ r \in fetches
    /\ fetches' = fetches \ {r}
    /\ IF r.outcome \in {"error", "throws"}
       THEN /\ error' = "Failed to fetch daily tasks"
            /\ taskList' = <<>>
       ELSE /\ taskList' = r.data
            /\ UNCHANGED error
    /\ loading' = FALSE
    /\ UNCHANGED <<sideVars, redelivered, deletes_handled, updateTask_tasks,
                   update_call, dbVars, notifications, http_posts, runs, sqlVars, svcVars,
                   user, filters, daily_tasks, next_id, fetch_seq, events, handlers,
                   db_ops, filter_changes, task_webhook_setting, task_webhook_calls>>

\* the component passes new filters: fetchTasks is re-created and its effect
\* runs it (hook lines 77 and 362-364); the subscription effect re-subscribes
SetFilters(f) ==
    /\ OpsUsed < MaxOps
    /\ f \in FilterChoices \ {filters}
    /\ filters' = f
    /\ filter_changes' = filter_changes + 1
    /\ FetchTasksCall(f)
    /\ updateTask_tasks' = taskList
    /\ UNCHANGED <<sideVars, redelivered, deletes_handled, update_call,
                   dbVars, notifications, http_posts, runs, sqlVars, svcVars,
                   user, daily_tasks, next_id, taskList, events, handlers,
                   db_ops, task_webhook_setting, task_webhook_calls>>

----------------------------------------------------------------------------
(* Changes of daily_tasks made by any client, and their realtime events *)

\* postgres_changes reaches the hook only while it is subscribed (user set)
Emit(eventType, id) ==
    IF user = NoUser THEN events
    ELSE Append(events, [eventType |-> eventType, id |-> id, n |-> db_ops + 1,
                         copy |-> 0])

DbInsert ==
    /\ OpsUsed < MaxOps
    /\ next_id <= MaxDaily
    /\ \E owner \in TaskOwners, project \in ProjectIds :
         daily_tasks' = daily_tasks \cup {DailyRow(next_id, owner, "pending", project)}
    /\ next_id' = next_id + 1
    /\ events' = Emit("INSERT", next_id)
    /\ db_ops' = db_ops + 1
    /\ UNCHANGED <<sideVars, redelivered, deletes_handled, updateTask_tasks,
                   update_call, dbVars, notifications, http_posts, runs, sqlVars, svcVars,
                   user, filters, taskList, loading, error, fetches, fetch_seq, handlers,
                   filter_changes, task_webhook_setting, task_webhook_calls>>

DbUpdate ==
    /\ OpsUsed < MaxOps
    /\ \E row \in daily_tasks :
         \E new \in { [row EXCEPT !.status = s] : s \in Statuses \ {row.status} }
                    \cup { [row EXCEPT !.user_id = o] : o \in TaskOwners \ {row.user_id} }
                    \cup { [row EXCEPT !.project_id = q] : q \in ProjectIds \ {row.project_id} } :
            /\ daily_tasks' = (daily_tasks \ {row}) \cup {new}
            /\ events' = Emit("UPDATE", row.id)
    /\ db_ops' = db_ops + 1
    /\ UNCHANGED <<sideVars, redelivered, deletes_handled, updateTask_tasks,
                   update_call, dbVars, notifications, http_posts, runs, sqlVars, svcVars,
                   user, filters, next_id, taskList, loading, error, fetches, fetch_seq,
                   handlers, filter_changes, task_webhook_setting, task_webhook_calls>>

DbDelete ==
    /\ OpsUsed < MaxOps
    /\ \E row \in daily_tasks :
            /\ daily_tasks' = daily_tasks \ {row}
            /\ events' = Emit("DELETE", row.id)
    /\ db_ops' = db_ops + 1
    /\ UNCHANGED <<sideVars, redelivered, deletes_handled, updateTask_tasks,
                   update_call, dbVars, notifications, http_posts, runs, sqlVars, svcVars,
                   user, filters, next_id, taskList, loading, error, fetches, fetch_seq,
                   handlers, filter_changes, task_webhook_setting, task_webhook_calls>>

\* the channel delivers the oldest undelivered INSERT event twice
DuplicateEvent ==
    /\ OpsUsed < MaxOps
    /\ events # <<>>
    /\ Head(events).eventType = "INSERT"
    /\ Head(events).copy = 0
    /\ Head(events).n \notin redelivered
    /\ events' = <<[Head(events) EXCEPT !.copy = 1]>> \o events
    /\ redelivered' = redelivered \cup {Head(events).n}
    /\ UNCHANGED <<sideVars, deletes_handled, updateTask_tasks, update_call, dbVars, notifications, http_posts, runs, sqlVars, svcVars,
                   user, filters, daily_tasks, next_id, taskList, loading, error, fetches,
                   fetch_seq, handlers, db_ops, filter_changes, task_webhook_setting,
                   task_webhook_calls>>

----------------------------------------------------------------------------
(* useDailyTasks: the postgres_changes callback (hook lines 217-350) *)

\* the callback runs for the oldest undelivered event: a DELETE filters the
\* list at once; an INSERT or UPDATE starts fetchCompleteTask, which closes
\* over the filters and the user of the current subscription
DeliverEvent ==
    /\ events # <<>>
    /\ LET e == Head(events)
       IN  IF e.eventType = "DELETE"
           THEN /\ taskList' = DeleteUpdater(taskList, e.id)
                /\ deletes_handled' = deletes_handled \cup {e.id}
                /\ UNCHANGED handlers
           ELSE /\ handlers' = handlers \cup
                      {[eventType |-> e.eventType, id |-> e.id, n |-> e.n,
                        copy |-> e.copy,
                        f |-> filters, u |-> user, stage |-> "query", row |-> DailyRow(e.id, 0, "", "")]}
                /\ UNCHANGED <<taskList, deletes_handled>>
    /\ events' = Tail(events)
    /\ UNCHANGED <<sideVars, redelivered, updateTask_tasks,
                   update_call, dbVars, notifications, http_posts, runs, sqlVars, svcVars,
                   user, filters, daily_tasks, next_id, loading, error, fetches,
                   fetch_seq, db_ops, filter_changes, task_webhook_setting,
                   task_webhook_calls>>

\* .from('daily_tasks').select('*').eq('id', payload.new.id).single() is
\* answered; an error or no row ends the handler (hook lines 251-260, 299-308)
HandlerQuery(h) ==
    /\ h \in handlers
    /\ h.stage = "query"
    /\ LET found == {t \in daily_tasks : t.id = h.id}
       IN  IF found = {} \/ "daily_tasks" \in faults
           THEN handlers' = handlers \ {h}
           ELSE handlers' = (handlers \ {h}) \cup
                    {[h EXCEPT !.stage = "apply", !.row = CHOOSE t \in found : TRUE]}
    /\ UNCHANGED <<sideVars, redelivered, deletes_handled, updateTask_tasks,
                   update_call, dbVars, notifications, http_posts, runs, sqlVars, svcVars,
                   user, filters, daily_tasks, next_id, taskList, loading, error, fetches,
                   fetch_seq, events, db_ops, filter_changes, task_webhook_setting,
                   task_webhook_calls>>

\* fetchCompleteTask calls setTasks with its updater
HandlerApply(h) ==
    /\ h \in handlers
    /\ h.stage = "apply"
    /\ taskList' = IF h.eventType = "INSERT"
                   THEN InsertUpdater(taskList, h.row, h.f, h.u)
                   ELSE UpdateUpdater(taskList, h.row, h.f, h.u)
    /\ handlers' = handlers \ {h}
    /\ UNCHANGED <<sideVars, redelivered, deletes_handled, updateTask_tasks,
                   update_call, dbVars, notifications, http_posts, runs, sqlVars, svcVars,
                   user, filters, daily_tasks, next_id, loading, error, fetches,
                   fetch_seq, events, db_ops, filter_changes, task_webhook_setting,
                   task_webhook_calls>>

----------------------------------------------------------------------------
(* useDailyTasks.createTask (hook lines 366-445) *)

\* createTask(taskData) for a task of `owner` in `project`: the inserted row
\* gets the default status; the webhook call is not awaited
CreateTask(owner, project) ==
    /\ Idle
    /\ OpsUsed < MaxOps
    /\ next_id <= MaxDaily
    /\ db_ops' = db_ops + 1
    /\ IF user = NoUser
       THEN /\ error' = "No user found. Cannot create task."
            /\ UNCHANGED <<daily_tasks, next_id, events, http_posts, task_webhook_calls>>
       ELSE \E insertError \in BOOLEAN :
            IF insertError
            THEN /\ error' = "Error creating daily task"
                 /\ UNCHANGED <<daily_tasks, next_id, events, http_posts,
                                task_webhook_calls>>
            ELSE /\ error' = NULL
                 /\ daily_tasks' =
                        daily_tasks \cup {DailyRow(next_id, owner, "pending", project)}
                 /\ next_id' = next_id + 1
                 /\ events' = Emit("INSERT", next_id)
                 /\ SendTaskWebhook("daily_task_created", next_id)
    /\ UNCHANGED <<sideVars, redelivered, deletes_handled, updateTask_tasks, update_call,
                   now, tasks, deleted_tasks, members, project_managers, admins,
                   webhook_settings, faults, notifications, runs, sqlVars, svcVars,
                   user, filters, taskList, loading, fetches, fetch_seq,
                   handlers, filter_changes, task_webhook_setting>>

----------------------------------------------------------------------------
(* useDailyTasks.updateTask (hook lines 447-523) *)

\* updateTask has not been called
NoUpdateCall ==
    [id |-> 0, status |-> "", succeeded |-> FALSE, previous |-> "", listed |-> "",
     old_status |-> "", webhook |-> FALSE]

\* the `updates` arguments of the model: a status, or another column alone
UpdateChoices ==
    { [status |-> "pending", project_id |-> ""],
      [status |-> "completed", project_id |-> ""],
      [status |-> "", project_id |-> "p2"] }

\* tasks.find(task => task.id === id)?.status
StatusIn(list, id) ==
    IF id \in IdsOf(list)
    THEN list[CHOOSE i \in DOMAIN list :
                 /\ list[i].id = id
                 /\ \A j \in 1..(i - 1) : list[j].id # id].status
    ELSE "undefined"

\* { ...updates } applied to the row
ApplyUpdates(row, updates) ==
    [row EXCEPT !.status = IF updates.status # "" THEN updates.status ELSE @,
                !.project_id = IF updates.project_id # "" THEN updates.project_id ELSE @]

\* what one call of updateTask did: `previous` is the row's status before the
\* update and `listed` the status in the hook's list when the call was made
UpdateCall(id, updates, succeeded, oldStatus, webhook) ==
    [id |-> id, status |-> updates.status, succeeded |-> succeeded,
     previous |-> StatusIn(OrderByIdDesc(daily_tasks), id),
     listed |-> StatusIn(taskList, id),
     old_status |-> oldStatus, webhook |-> webhook]

UpdateTask(id, updates) ==
    /\ Idle
    /\ OpsUsed < MaxOps
    /\ db_ops' = db_ops + 1
    /\ IF user = NoUser
       THEN /\ error' = "Invalid task id or no user found."
            /\ update_call' = UpdateCall(id, updates, FALSE, "undefined", FALSE)
            /\ UNCHANGED <<daily_tasks, events, http_posts, task_webhook_calls>>
       ELSE LET oldStatus == IF updates.status # ""
                             THEN StatusIn(updateTask_tasks, id)
                             ELSE "undefined"
                found == {t \in daily_tasks : t.id = id}
            IN  IF found = {} \/ "daily_tasks" \in faults
                THEN /\ error' = "Error updating daily task"
                     /\ update_call' = UpdateCall(id, updates, FALSE, oldStatus, FALSE)
                     /\ UNCHANGED <<daily_tasks, events, http_posts, task_webhook_calls>>
                ELSE LET row == CHOOSE t \in found : TRUE
                         sends == updates.status # "" /\ oldStatus # updates.status
                     IN  /\ error' = NULL
                         /\ daily_tasks' =
                                (daily_tasks \ {row}) \cup {ApplyUpdates(row, updates)}
                         /\ events' = Emit("UPDATE", id)
                         /\ update_call' = UpdateCall(id, updates, TRUE, oldStatus, sends)
                         /\ IF sends
                            THEN SendTaskWebhook("daily_task_updated", id)
                            ELSE UNCHANGED <<http_posts, task_webhook_calls>>
    /\ UNCHANGED <<sideVars, redelivered, deletes_handled, updateTask_tasks,
                   now, tasks, deleted_tasks, members, project_managers, admins,
                   webhook_settings, faults, notifications, runs, sqlVars, svcVars,
                   user, filters, next_id, taskList, loading, fetches, fetch_seq,
                   handlers, filter_changes, task_webhook_setting>>

----------------------------------------------------------------------------
(* useDailyTasks.deleteTask (hook lines 525-593) *)

\* deletedTasksService.recordDeletedTask(task, deletedBy, taskType)
RecordDeletedTask(task, deletedBy, taskType) ==
    Append(deleted_tasks,
           [task_id |-> task.id, task_type |-> taskType, deleted_by |-> deletedBy,
            deleted_at |-> now])

DeleteTaskAuditType == "daily"

DeleteTask(id) ==
    /\ Idle
    /\ OpsUsed < MaxOps
    /\ db_ops' = db_ops + 1
    /\ IF user = NoUser
       THEN /\ error' = "Invalid task id or no user found."
            /\ UNCHANGED <<deleted_tasks, daily_tasks, events, http_posts,
                           task_webhook_calls>>
       ELSE IF id \notin IdsOf(taskList)
       THEN /\ error' = "Task not found"
            /\ UNCHANGED <<deleted_tasks, daily_tasks, events, http_posts,
                           task_webhook_calls>>
       ELSE LET taskToDelete == CHOOSE t \in {taskList[i] : i \in DOMAIN taskList} :
                                    t.id = id
            IN  /\ deleted_tasks' =
                       RecordDeletedTask(taskToDelete, user.id, DeleteTaskAuditType)
                /\ \E deleteError \in BOOLEAN :
                     IF deleteError
                     THEN /\ error' = "Error deleting daily task"
                          /\ UNCHANGED <<daily_tasks, events, http_posts,
                                         task_webhook_calls>>
                     ELSE /\ error' = NULL
                          /\ daily_tasks' = {t \in daily_tasks : t.id # id}
                          /\ events' = IF id \in {t.id : t \in daily_tasks}
                                       THEN Emit("DELETE", id)
                                       ELSE events
                          /\ SendTaskWebhook("daily_task_deleted", id)
    /\ UNCHANGED <<sideVars, redelivered, deletes_handled, updateTask_tasks,
                   update_call, now, tasks, members, project_managers, admins, webhook_settings,
                   faults, notifications, runs, sqlVars, svcVars,
                   user, filters, next_id, taskList, loading, fetches, fetch_seq,
                   handlers, filter_changes, task_webhook_setting>>

----------------------------------------------------------------------------
(* The setup script of the daily report (README lines 155-299) and pg_cron *)

SetupJobName == "daily-performance-report"

\* a variant with the README's example schedule for IST, which the properties
\* must tell apart
SetupJobScheduleIst == "0 14 * * *"

SetupJobSchedule == "0 20 * * *"

SetupJobCommand == "SELECT send_daily_performance_report();"

JobsNamed(jobs, name) == SelectSeq(jobs, LAMBDA j : j.jobname = name)

\* cron.unschedule(job_name): deletes the job of that name
CronUnschedule(jobs, name) == SelectSeq(jobs, LAMBDA j : j.jobname # name)

\* cron.schedule(job_name, schedule, command): a job of that name is
\* updated in place, otherwise a job with the next jobid is inserted
CronSchedule(jobs, seq, name, schedule, command) ==
    IF JobsNamed(jobs, name) # <<>>
    THEN [i \in DOMAIN jobs |->
             IF jobs[i].jobname = name
             THEN [jobs[i] EXCEPT !.schedule = schedule, !.command = command]
             ELSE jobs[i]]
    ELSE Append(jobs, [jobid |-> seq + 1, jobname |-> name, schedule |-> schedule,
                       command |-> command])

CronSeqAfter(jobs, seq, name) == IF JobsNamed(jobs, name) # <<>> THEN seq ELSE seq + 1

\* a statement outside the script ends the "just set up" position
AfterOtherStatement == IF setup_pc = "done" THEN "idle" ELSE setup_pc

\* Step 3: remove any existing schedule for this job
SetupStep3 ==
    /\ setup_pc \in {"idle", "done"}
    /\ setup_runs < MaxSetupRuns
    /\ cron_seq < MaxJobId
    /\ cron_job' = IF JobsNamed(cron_job, SetupJobName) # <<>>
                   THEN CronUnschedule(cron_job, SetupJobName)
                   ELSE cron_job
    /\ setup_pc' = "step4"
    /\ UNCHANGED <<cron_seq, setup_runs>>
    /\ UNCHANGED <<fmtVars, edgeVars, dbVars, notifications, http_posts, runs, sqlVars, svcVars,
                   hookVars>>

\* Step 4: schedule the daily report; Step 5 only reads cron.job
SetupStep4 ==
    /\ setup_pc = "step4"
    /\ cron_job' = CronSchedule(cron_job, cron_seq, SetupJobName, SetupJobSchedule,
                                SetupJobCommand)
    /\ cron_seq' = CronSeqAfter(cron_job, cron_seq, SetupJobName)
    /\ setup_pc' = "done"
    /\ setup_runs' = setup_runs + 1
    /\ UNCHANGED <<fmtVars, edgeVars, dbVars, notifications, http_posts, runs, sqlVars, svcVars,
                   hookVars>>

CustomSchedules == {"0 14 * * *", "0 1 * * *"}

\* an operator schedules the job at a custom time (migration lines 472-476)
ManualSchedule ==
    /\ JobsNamed(cron_job, SetupJobName) # <<>> \/ cron_seq < MaxJobId
    /\ \E schedule \in CustomSchedules :
          cron_job' = CronSchedule(cron_job, cron_seq, SetupJobName, schedule,
                                   SetupJobCommand)
    /\ cron_seq' = CronSeqAfter(cron_job, cron_seq, SetupJobName)
    /\ setup_pc' = AfterOtherStatement
    /\ UNCHANGED setup_runs
    /\ UNCHANGED <<fmtVars, edgeVars, dbVars, notifications, http_posts, runs, sqlVars, svcVars,
                   hookVars>>

\* an operator removes the job (migration line 482)
ManualUnschedule ==
    /\ JobsNamed(cron_job, SetupJobName) # <<>>
    /\ cron_job' = CronUnschedule(cron_job, SetupJobName)
    /\ setup_pc' = AfterOtherStatement
    /\ UNCHANGED <<cron_seq, setup_runs>>
    /\ UNCHANGED <<fmtVars, edgeVars, dbVars, notifications, http_posts, runs, sqlVars, svcVars,
                   hookVars>>

----------------------------------------------------------------------------
(* dailyPerformanceReportService.formatReportMessage (service lines 222-250) *)

\* a variant with the comparator reversed, which the properties must tell apart
CompletedAscending(a, b) == a.completed <= b.completed

\* (a, b) => b.completed - a.completed is not positive: a stays before b
CompletedDescending(a, b) == a.completed >= b.completed

RECURSIVE InsertSorted(_, _)
\* the entry goes behind every entry that the comparator keeps before it
InsertSorted(sorted, entry) ==
    IF sorted = <<>> THEN <<entry>>
    ELSE IF CompletedDescending(sorted[1], entry)
         THEN <<sorted[1]>> \o InsertSorted(Tail(sorted), entry)
         ELSE <<entry>> \o sorted

RECURSIVE SortUsers(_)
\* [...byUser].sort(...): a stable sort of a copy
SortUsers(byUser) ==
    IF byUser = <<>> THEN <<>>
    ELSE InsertSorted(SortUsers(SubSeq(byUser, 1, Len(byUser) - 1)), byUser[Len(byUser)])

\* .slice(0, 5)
SliceTop(users) == SubSeq(users, 1, Min(TopPerformersLimit, Len(users)))

OverallLines == <<"Date", "", "Overall Performance", "Total Tasks Updated", "Completed",
                  "Pending", "Blocked", "Deleted", "">>

FormatReportMessage(byUser) ==
    [k \in 1..Len(OverallLines) |-> [kind |-> "overall", text |-> OverallLines[k]]]
    \o (IF Len(byUser) > 0
        THEN LET sortedUsers == SliceTop(SortUsers(byUser))
             IN  <<[kind |-> "title", text |-> "Top Performers Today:"]>>
                 \o [k \in 1..Len(sortedUsers) |->
                        [kind |-> "user", index |-> k, userId |-> sortedUsers[k].userId,
                         completed |-> sortedUsers[k].completed,
                         totalTasks |-> sortedUsers[k].totalTasks]]
        ELSE <<>>)

\* the sort works on a copy: the array of the report is not written
ByUserAfterFormat(byUser) == byUser

CallFormatReportMessage ==
    /\ fmt_pc = "ready"
    /\ fmt_lines' = FormatReportMessage(fmt_byUser)
    /\ fmt_byUser' = ByUserAfterFormat(fmt_byUser)
    /\ fmt_pc' = "done"
    /\ UNCHANGED fmt_original
    /\ UNCHANGED <<cronVars, edgeVars, dbVars, notifications, http_posts, runs, sqlVars, svcVars,
                   hookVars>>

----------------------------------------------------------------------------
(* The daily-performance-report edge function: serve (useDailyTasks.ts      *)
(* lines 651-707)                                                           *)

\* Deno.env.get(name) ?? '': an unset variable reads as the empty string
EnvOrEmpty(v) == IF v = "undefined" THEN "" ELSE v

supabaseUrl        == EnvOrEmpty(edge_env.url)
supabaseServiceKey == EnvOrEmpty(edge_env.key)

\* a variant that wants both variables missing, which the properties must
\* tell apart
EnvMissingBoth == supabaseUrl = "" /\ supabaseServiceKey = ""

\* !supabaseUrl || !supabaseServiceKey
EnvMissing == supabaseUrl = "" \/ supabaseServiceKey = ""

MissingEnvMessage == "Missing Supabase environment variables"

\* new Response('ok', { headers: corsHeaders })
OptionsResponse ==
    [status |-> 200, body |-> "ok", success |-> "none", error |-> "", cors |-> TRUE]

\* the response of the try block's end
SuccessResponse ==
    [status |-> 200, body |-> "json", success |-> "true", error |-> "", cors |-> TRUE]

\* the response of the catch block
ErrorResponse(message) ==
    [status |-> 500, body |-> "json", success |-> "false", error |-> message,
     cors |-> TRUE]

\* one served request: its method, the RPC calls it made, how the RPC ended,
\* how often the SQL function ran for it, and the responses it returned
Served(method, calls, rpc, ran, responses) ==
    [method |-> method, calls |-> calls, rpc |-> rpc, ran |-> ran,
     env_missing |-> EnvMissing, responses |-> responses]

Methods == {"OPTIONS", "POST", "GET"}

\* serve's callback up to its first return or to the await of supabase.rpc
Serve(method) ==
    /\ edge_pc = "idle"
    /\ Idle
    /\ Len(edge_log) < MaxRequests
    /\ IF method = "OPTIONS"
       THEN /\ edge_log' = Append(edge_log,
                   Served(method, 0, "none", 0, <<OptionsResponse>>))
            /\ UNCHANGED <<edge_pc, edge_method, edge_base, edge_rpc_calls>>
       ELSE IF EnvMissing
       THEN /\ edge_log' = Append(edge_log,
                   Served(method, 0, "none", 0, <<ErrorResponse(MissingEnvMessage)>>))
            /\ UNCHANGED <<edge_pc, edge_method, edge_base, edge_rpc_calls>>
       ELSE /\ edge_pc' = "rpc"
            /\ edge_method' = method
            /\ edge_base' = runs
            /\ edge_rpc_calls' = 1
            /\ UNCHANGED edge_log
    /\ UNCHANGED <<cronVars, fmtVars, edge_env, dbVars, notifications, http_posts, runs,
                   sqlVars, svcVars, hookVars>>

\* the RPC reaches the database: send_daily_performance_report starts
RpcRuns ==
    /\ edge_pc = "rpc"
    /\ runs = edge_base
    /\ SqlBegin

\* how supabase.rpc can end: { error: null }, { error }, or a thrown exception
RpcOutcomes == {"data", "error", "throws"}

RpcErrorMessage(outcome) ==
    IF outcome = "error" THEN "rpc error" ELSE "fetch failed"

\* supabase.rpc settles and serve returns its response (lines 672-705)
RpcSettles ==
    /\ edge_pc = "rpc"
    /\ sql_pc = "idle"
    /\ \E outcome \in RpcOutcomes :
          /\ outcome = "data" => (runs = edge_base + 1 /\ sql_result = "ok")
          /\ edge_log' = Append(edge_log,
                 Served(edge_method, edge_rpc_calls, outcome, runs - edge_base,
                        IF outcome = "data"
                        THEN <<SuccessResponse>>
                        ELSE <<ErrorResponse(RpcErrorMessage(outcome))>>))
    /\ edge_pc' = "idle"
    /\ edge_method' = ""
    /\ edge_rpc_calls' = 0
    /\ UNCHANGED <<cronVars, fmtVars, edge_env, edge_base, dbVars, notifications,
                   http_posts, runs, sqlVars, svcVars, hookVars>>

----------------------------------------------------------------------------
(* Initial states *)

ReportStatuses == {"completed", "in_progress"}

\* updated_at: yesterday's last tick, today's first tick, a fraction past
\* 23:59:59 and today's last tick
StampPoints == {Today - 1, Today, Tomorrow - TicksPerSec + 1, Tomorrow - 1}

\* deleted_at: today's first tick and a fraction past 23:59:59
DeletedPoints == {Today, Tomorrow - TicksPerSec + 1}

\* due_date: today's date and tomorrow's date
DuePoints == {Today, Tomorrow}

TaskRows(id) ==
    { [id |-> id, user_id |-> 1, status |-> st, updated_at |-> up, due_date |-> due] :
        st \in ReportStatuses, up \in StampPoints, due \in DuePoints }

\* the tables with n rows, ids 1..n
RECURSIVE TaskTables(_)
TaskTables(n) ==
    IF n = 0 THEN {{}}
    ELSE {tbl \cup {row} : tbl \in TaskTables(n - 1), row \in TaskRows(n)}

AllTaskTables == UNION {TaskTables(n) : n \in 0..MaxTasks}

DeletedRows ==
    { [task_id |-> 0, task_type |-> ty, deleted_by |-> 1, deleted_at |-> at] :
        ty \in {"regular", "daily"}, at \in DeletedPoints }

RECURSIVE DeletedTables(_)
DeletedTables(n) ==
    IF n = 0 THEN {<<>>}
    ELSE {Append(tbl, row) : tbl \in DeletedTables(n - 1), row \in DeletedRows}

AllDeletedTables == UNION {DeletedTables(n) : n \in 0..MaxDeleted}

UserRow(id, active) == [id |-> id, is_active |-> active]

SomeMembers == <<UserRow(1, TRUE), UserRow(2, FALSE)>>
SomeManagers == <<UserRow(1001, TRUE)>>
SomeAdmins == <<UserRow(2001, TRUE)>>

MemberTables ==
    { a \o b : a \in {<<>>, <<UserRow(1, TRUE)>>, <<UserRow(1, FALSE)>>},
               b \in {<<>>, <<UserRow(2, TRUE)>>, <<UserRow(2, FALSE)>>} }
ManagerTables == {<<UserRow(1001, TRUE)>>, <<UserRow(1001, FALSE)>>}
AdminTables == {<<UserRow(2001, TRUE)>>, <<UserRow(2001, FALSE)>>}

DisabledWebhookRow ==
    [present |-> TRUE, url |-> "https://example.test/hook", is_enabled |-> "false"]

NoWebhookRow == [present |-> FALSE, url |-> NULL, is_enabled |-> NULL]

WebhookRows ==
    {NoWebhookRow} \cup
    { [present |-> TRUE, url |-> url, is_enabled |-> en] :
        url \in {NULL, "", "https://example.test/hook"},
        en \in {"true", "false", NULL} }

SomeTasks ==
    { [id |-> 1, user_id |-> 1, status |-> "completed", updated_at |-> Today,
       due_date |-> Today],
      [id |-> 2, user_id |-> 1, status |-> "in_progress", updated_at |-> Today,
       due_date |-> Today] }

SomeDeleted ==
    << [task_id |-> 0, task_type |-> "regular", deleted_by |-> 1, deleted_at |-> Today] >>

SelectFaultChoices ==
    { {}, {"tasks"}, {"deleted_tasks"}, {"tasks", "deleted_tasks"}, {"members"},
      {"project_managers", "admins"} }

\* the setup script has not run and cron.job is empty
CronIdle ==
    /\ cron_job = <<>> /\ cron_seq = 0 /\ setup_pc = "idle" /\ setup_runs = 0

\* formatReportMessage has not been called
FmtIdle ==
    /\ fmt_pc = "idle" /\ fmt_byUser = <<>> /\ fmt_original = <<>> /\ fmt_lines = <<>>

\* the edge function has its environment and has served no request
EdgeIdle ==
    /\ edge_env = [url |-> "https://project.supabase.co", key |-> "service-role-key"]
    /\ edge_pc = "idle" /\ edge_method = "" /\ edge_base = 0
    /\ edge_rpc_calls = 0 /\ edge_log = <<>>

SideIdle == CronIdle /\ FmtIdle /\ EdgeIdle

\* cron.job before the script runs: no job, or the job at some schedule,
\* with or without a job of another name
CronTables ==
    { other \o named :
        other \in {<<>>, <<[jobid |-> 1, jobname |-> "cleanup", schedule |-> "0 3 * * *",
                            command |-> "SELECT 1;"]>>},
        named \in {<<>>} \cup
                  { <<[jobid |-> 2, jobname |-> SetupJobName, schedule |-> sch,
                       command |-> cmd]>> :
                      sch \in CustomSchedules \cup {SetupJobSchedule},
                      cmd \in {SetupJobCommand, "SELECT 1;"} } }

\* the report functions have not run
ReportIdle ==
    /\ notifications = <<>>
    /\ http_posts = <<>>
    /\ runs = 0
    /\ sql_pc = "idle" /\ sql_run = 0 /\ sql_report = NoReport
    /\ sql_result = "none" /\ sql_trace = <<>>
    /\ svc_pc = "idle" /\ svc_run = 0 /\ svc_report = NoReport /\ svc_queue = <<>>
    /\ svc_i = 0 /\ svc_batches = <<>> /\ svc_result = "none" /\ svc_log = <<>>

\* a member's mounted hook whose first fetchTasks has returned the one row
HookLoaded ==
    /\ user = [id |-> 1, role |-> "member"]
    /\ filters = NoFilters
    /\ daily_tasks = {DailyRow(1, 1, "pending", "p1")}
    /\ next_id = 2
    /\ taskList = <<DailyRow(1, 1, "pending", "p1")>>
    /\ loading = FALSE
    /\ error = NULL
    /\ fetches = {}
    /\ fetch_seq = 1
    /\ events = <<>>
    /\ handlers = {}
    /\ db_ops = 0
    /\ filter_changes = 0
    /\ task_webhook_setting = [state |-> "norow", enabled |-> FALSE, url |-> ""]
    /\ task_webhook_calls = <<>>
    /\ redelivered = {}
    /\ deletes_handled = {}
    /\ updateTask_tasks = <<>>
    /\ update_call = NoUpdateCall

\* the tasks table varies, or the deleted_tasks table does; the counts over
\* the one table do not read the other
Init ==
    /\ now = Tomorrow - 1
    /\ \/ tasks \in AllTaskTables /\ deleted_tasks = <<>>
       \/ tasks = SomeTasks /\ deleted_tasks \in AllDeletedTables
    /\ members = SomeMembers
    /\ project_managers = SomeManagers
    /\ admins = SomeAdmins
    /\ webhook_settings = DisabledWebhookRow
    /\ faults = {}
    /\ ReportIdle
    /\ SideIdle
    /\ HookLoaded

\* the deleted_tasks table varies and the hook deletes daily tasks
AuditTimes == {Today + 1, Tomorrow - 1}

\* the time of day and the earlier 'regular' records of deleted_tasks vary
InitAudit ==
    /\ now \in AuditTimes
    /\ tasks = SomeTasks
    /\ deleted_tasks \in {tbl \in AllDeletedTables :
                            \A i \in DOMAIN tbl : /\ tbl[i].task_type = "regular"
                                                  /\ tbl[i].deleted_at <= now}
    /\ members = SomeMembers
    /\ project_managers = SomeManagers
    /\ admins = SomeAdmins
    /\ webhook_settings = DisabledWebhookRow
    /\ faults = {}
    /\ ReportIdle
    /\ SideIdle
    /\ HookLoaded

\* the user tables and the failing selects vary
InitNotify ==
    /\ now = Tomorrow - 1
    /\ tasks = SomeTasks
    /\ deleted_tasks = SomeDeleted
    /\ members \in MemberTables
    /\ project_managers \in ManagerTables
    /\ admins \in AdminTables
    /\ webhook_settings = DisabledWebhookRow
    /\ faults \in SelectFaultChoices
    /\ ReportIdle
    /\ SideIdle
    /\ HookLoaded

\* the webhook_settings row varies
InitWebhook ==
    /\ now = Tomorrow - 1
    /\ tasks = SomeTasks
    /\ deleted_tasks = SomeDeleted
    /\ members = SomeMembers
    /\ project_managers = SomeManagers
    /\ admins = SomeAdmins
    /\ webhook_settings \in WebhookRows
    /\ faults = {}
    /\ ReportIdle
    /\ SideIdle
    /\ HookLoaded

\* the number of active members varies around multiples of batchSize
BatchCounts == {0, 1, batchSize - 1, batchSize, batchSize + 1, 2 * batchSize + 1}

InitBatch ==
    /\ now = Tomorrow - 1
    /\ tasks = SomeTasks
    /\ deleted_tasks = SomeDeleted
    /\ \E n \in BatchCounts : members = [i \in 1..n |-> UserRow(i, TRUE)]
    /\ project_managers = <<>>
    /\ admins = <<>>
    /\ webhook_settings = DisabledWebhookRow
    /\ faults = {}
    /\ ReportIdle
    /\ SideIdle
    /\ HookLoaded

\* cron.job varies
InitCron ==
    /\ now = Tomorrow - 1
    /\ tasks = SomeTasks
    /\ deleted_tasks = SomeDeleted
    /\ members = SomeMembers
    /\ project_managers = SomeManagers
    /\ admins = SomeAdmins
    /\ webhook_settings = DisabledWebhookRow
    /\ faults = {}
    /\ ReportIdle
    /\ HookLoaded
    /\ FmtIdle
    /\ EdgeIdle
    /\ cron_job \in CronTables
    /\ cron_seq = 2
    /\ setup_pc = "idle"
    /\ setup_runs = 0

\* tasks of a known user and of a user in none of the three user tables
BreakdownOwners == {1, 9}

BreakdownRows(id) ==
    { [id |-> id, user_id |-> uid, status |-> st, updated_at |-> up, due_date |-> due] :
        uid \in BreakdownOwners, st \in ReportStatuses, up \in {Today - 1, Today},
        due \in DuePoints }

RECURSIVE BreakdownTables(_)
BreakdownTables(n) ==
    IF n = 0 THEN {{}}
    ELSE {tbl \cup {row} : tbl \in BreakdownTables(n - 1), row \in BreakdownRows(n)}

\* the owners of the tasks vary
InitBreakdown ==
    /\ now = Tomorrow - 1
    /\ tasks \in UNION {BreakdownTables(n) : n \in 0..MaxTasks}
    /\ deleted_tasks = SomeDeleted
    /\ members = SomeMembers
    /\ project_managers = SomeManagers
    /\ admins = SomeAdmins
    /\ webhook_settings = DisabledWebhookRow
    /\ faults = {}
    /\ ReportIdle
    /\ SideIdle
    /\ HookLoaded

RECURSIVE ByUserArrays(_)
\* the arrays of n entries, user ids 1..n, each with 0..MaxCompleted completed
ByUserArrays(n) ==
    IF n = 0 THEN {<<>>}
    ELSE { Append(arr, [userId |-> n, completed |-> c, totalTasks |-> MaxCompleted]) :
             arr \in ByUserArrays(n - 1), c \in 0..MaxCompleted }

\* the report passed to formatReportMessage varies
InitFormat ==
    /\ now = Tomorrow - 1
    /\ tasks = SomeTasks
    /\ deleted_tasks = SomeDeleted
    /\ members = SomeMembers
    /\ project_managers = SomeManagers
    /\ admins = SomeAdmins
    /\ webhook_settings = DisabledWebhookRow
    /\ faults = {}
    /\ ReportIdle
    /\ HookLoaded
    /\ CronIdle
    /\ EdgeIdle
    /\ fmt_pc = "ready"
    /\ fmt_byUser \in UNION {ByUserArrays(n) : n \in 0..MaxUsers}
    /\ fmt_original = fmt_byUser
    /\ fmt_lines = <<>>

\* rows of webhook_settings for task_webhook_enabled, a missing row and a
\* failing query
TaskWebhookSettings ==
    { [state |-> "norow", enabled |-> FALSE, url |-> ""],
      [state |-> "error", enabled |-> FALSE, url |-> ""],
      [state |-> "row", enabled |-> FALSE, url |-> "https://example.test/tasks"],
      [state |-> "row", enabled |-> TRUE, url |-> "https://example.test/tasks"],
      [state |-> "row", enabled |-> TRUE, url |-> ""] }

\* a mounted hook whose first fetchTasks has returned the one row, under
\* every webhook setting
InitTaskWebhook ==
    /\ now = Today
    /\ tasks = {}
    /\ deleted_tasks = <<>>
    /\ members = SomeMembers
    /\ project_managers = SomeManagers
    /\ admins = SomeAdmins
    /\ webhook_settings = NoWebhookRow
    /\ faults = {}
    /\ ReportIdle
    /\ SideIdle
    /\ user \in {[id |-> 1, role |-> "member"], [id |-> 2001, role |-> "admin"]}
    /\ filters = NoFilters
    /\ daily_tasks = {DailyRow(1, 1, "pending", "p1")}
    /\ next_id = 2
    /\ taskList = <<DailyRow(1, 1, "pending", "p1")>>
    /\ loading = FALSE
    /\ error = NULL
    /\ fetches = {}
    /\ fetch_seq = 1
    /\ events = <<>>
    /\ handlers = {}
    /\ db_ops = 0
    /\ filter_changes = 0
    /\ task_webhook_setting \in TaskWebhookSettings
    /\ task_webhook_calls = <<>>
    /\ redelivered = {}
    /\ deletes_handled = {}
    /\ updateTask_tasks = <<>>
    /\ update_call = NoUpdateCall

\* the values of an environment variable: unset, empty, or set
EnvValues == {"undefined", "", "value"}

InitEdge ==
    /\ now = Tomorrow - 1
    /\ tasks = SomeTasks
    /\ deleted_tasks = SomeDeleted
    /\ members = SomeMembers
    /\ project_managers = SomeManagers
    /\ admins = SomeAdmins
    /\ webhook_settings \in WebhookRows
    /\ faults = {}
    /\ ReportIdle
    /\ CronIdle
    /\ FmtIdle
    /\ HookLoaded
    /\ edge_env \in [url : EnvValues, key : EnvValues]
    /\ edge_pc = "idle" /\ edge_method = "" /\ edge_base = 0
    /\ edge_rpc_calls = 0 /\ edge_log = <<>>

\* who mounts the hook and how the fetchTasks query fares
FetchMountChoices ==
    { [user |-> u, faults |-> fl] :
        u \in {NoUser, [id |-> 1, role |-> "member"]},
        fl \in {{}, {"daily_tasks"}, {"network"}} }

\* the hook right after mount, with one or two rows in daily_tasks
InitFetch ==
    /\ now = Today
    /\ tasks = {}
    /\ deleted_tasks = <<>>
    /\ members = SomeMembers
    /\ project_managers = SomeManagers
    /\ admins = SomeAdmins
    /\ webhook_settings = NoWebhookRow
    /\ ReportIdle
    /\ SideIdle
    /\ \E m \in FetchMountChoices : user = m.user /\ faults = m.faults
    /\ filters = NoFilters
    /\ task_webhook_setting = [state |-> "row", enabled |-> FALSE, url |-> ""]
    /\ daily_tasks \in {{DailyRow(1, 1, "pending", "p1")},
                        {DailyRow(1, 1, "pending", "p1"),
                         DailyRow(2, 1, "completed", "p1")}}
    /\ next_id = Cardinality(daily_tasks) + 1
    /\ taskList = <<>>
    /\ error = NULL
    /\ IF user = NoUser
       THEN loading = FALSE /\ fetches = {} /\ fetch_seq = 0
       ELSE loading = TRUE /\ fetches = {FetchRequest(filters, user, 1)} /\ fetch_seq = 1
    /\ events = <<>>
    /\ handlers = {}
    /\ db_ops = 0
    /\ filter_changes = 0
    /\ task_webhook_calls = <<>>
    /\ redelivered = {}
    /\ deletes_handled = {}
    /\ updateTask_tasks = <<>>
    /\ update_call = NoUpdateCall

TaskWebhookChoices ==
    { [state |-> "norow", enabled |-> FALSE, url |-> ""],
      [state |-> "row", enabled |-> FALSE, url |-> "https://example.test/tasks"] }

\* who mounts the hook, with which filters, and what the backend does
MountChoices ==
    { [user |-> u, filters |-> f, faults |-> {}, setting |-> w] :
        u \in UserChoices, f \in {NoFilters, [NoFilters EXCEPT !.project = "p1"]},
        w \in {[state |-> "norow", enabled |-> FALSE, url |-> ""]} }
    \cup
    { [user |-> [id |-> 1, role |-> "member"], filters |-> NoFilters,
       faults |-> fl, setting |-> w] :
        fl \in {{}, {"daily_tasks"}}, w \in TaskWebhookChoices }

\* the hook right after mount: its effects have subscribed and called fetchTasks
InitHook ==
    /\ now = Today
    /\ tasks = {}
    /\ deleted_tasks = <<>>
    /\ members = SomeMembers
    /\ project_managers = SomeManagers
    /\ admins = SomeAdmins
    /\ webhook_settings = NoWebhookRow
    /\ ReportIdle
    /\ SideIdle
    /\ \E m \in MountChoices :
          /\ user = m.user
          /\ filters = m.filters
          /\ faults = m.faults
          /\ task_webhook_setting = m.setting
    /\ daily_tasks \in {{}, {DailyRow(1, 1, "pending", "p1")}}
    /\ next_id = Cardinality(daily_tasks) + 1
    /\ taskList = <<>>
    /\ error = NULL
    /\ IF user = NoUser
       THEN loading = FALSE /\ fetches = {} /\ fetch_seq = 0
       ELSE loading = TRUE /\ fetches = {FetchRequest(filters, user, 1)} /\ fetch_seq = 1
    /\ events = <<>>
    /\ handlers = {}
    /\ db_ops = 0
    /\ filter_changes = 0
    /\ task_webhook_calls = <<>>
    /\ redelivered = {}
    /\ deletes_handled = {}
    /\ updateTask_tasks = <<>>
    /\ update_call = NoUpdateCall

----------------------------------------------------------------------------
(* Specifications *)

NextReport ==
    \/ SqlBegin
    \/ SqlWebhook
    \/ SvcStart
    \/ SvcBatch
    \/ SvcFinish

NextAudit ==
    \/ NextReport
    \/ \E id \in 1..MaxDaily : DeleteTask(id)

NextHook ==
    \/ FetchTasks
    \/ \E r \in fetches : FetchDone(r)
    \/ \E f \in FilterChoices : SetFilters(f)
    \/ DbInsert
    \/ DbUpdate
    \/ DbDelete
    \/ DuplicateEvent
    \/ DeliverEvent
    \/ \E h \in handlers : HandlerQuery(h)
    \/ \E h \in handlers : HandlerApply(h)
    \/ \E id \in 1..MaxDaily : DeleteTask(id)

NextUpdate ==
    \/ NextHook
    \/ \E id \in 1..MaxDaily, updates \in UpdateChoices : UpdateTask(id, updates)

\* The three calls of the hook that send a task webhook. The realtime events
\* they cause stay queued: the subscription callback is covered by NextHook.
NextTaskWebhook ==
    \/ \E owner \in TaskOwners, project \in ProjectIds : CreateTask(owner, project)
    \/ \E id \in 1..MaxDaily, updates \in UpdateChoices : UpdateTask(id, updates)
    \/ \E id \in 1..MaxDaily : DeleteTask(id)

NextEdge ==
    \/ \E method \in Methods : Serve(method)
    \/ RpcRuns
    \/ SqlWebhook
    \/ RpcSettles

NextFetch ==
    \/ FetchTasks
    \/ \E r \in fetches : FetchDone(r)
    \/ \E f \in FilterChoices : SetFilters(f)
    \/ DbInsert
    \/ DeliverEvent
    \/ \E h \in handlers : HandlerQuery(h)
    \/ \E h \in handlers : HandlerApply(h)
    \/ \E id \in 1..MaxDaily : DeleteTask(id)

NextCron ==
    \/ SetupStep3
    \/ SetupStep4
    \/ ManualSchedule
    \/ ManualUnschedule

Spec        == Init /\ [][NextReport]_vars
SpecNotify  == InitNotify /\ [][NextReport]_vars
SpecWebhook == InitWebhook /\ [][NextReport]_vars
SpecBatch   == InitBatch /\ [][NextReport]_vars
SpecAudit   == InitAudit /\ [][NextAudit]_vars
SpecHook    == InitHook /\ [][NextHook]_vars
SpecCron    == InitCron /\ [][NextCron]_vars
SpecFormat  == InitFormat /\ [][CallFormatReportMessage]_vars
SpecBreakdown == InitBreakdown /\ [][NextReport]_vars
SpecUpdate  == InitHook /\ [][NextUpdate]_vars
SpecTaskWebhook == InitTaskWebhook /\ [][NextTaskWebhook]_vars
SpecEdge    == InitEdge /\ [][NextEdge]_vars
SpecFetch   == InitFetch /\ [][NextFetch]_vars

----------------------------------------------------------------------------
(* Properties *)

\* every realtime event is delivered, every handler and every fetch is done
Quiescent == events = <<>> /\ handlers = {} /\ fetches = {}

\* C1: once every event has been delivered and every handler and fetch has
\* finished, the ids of the hook's task list are the ids a fresh fetchTasks
\* with the active filters and the user's role would return.
C1_ListIsWhatFetchTasksReturns ==
    (Quiescent /\ user # NoUser /\ "daily_tasks" \notin faults)
       => IdsOf(taskList) = IdsOf(FetchQueryResult(filters, user))

ReportNotificationsFor(run, uid) ==
    {i \in DOMAIN notifications :
        /\ notifications[i].run = run
        /\ notifications[i].user_id = uid
        /\ notifications[i].type = "report"
        /\ notifications[i].is_read = FALSE}

NotificationsFor(run, uid) ==
    {i \in DOMAIN notifications :
        notifications[i].run = run /\ notifications[i].user_id = uid}

OneReportPerActiveUser(run) ==
    /\ \A uid \in ActiveUserIds :
          /\ Cardinality(ReportNotificationsFor(run, uid)) = 1
          /\ Cardinality(NotificationsFor(run, uid)) = 1
    /\ \A uid \in InactiveUserIds : NotificationsFor(run, uid) = {}

SqlFinished == sql_run > 0 /\ sql_pc = "idle"
SvcFinished == svc_run > 0 /\ svc_pc = "idle"

UserSelectFaults == faults \cap {"members", "project_managers", "admins"}

InWindow(t, first, last) == first <= t /\ t <= last

\* today's window of the SQL function: 00:00:00 .. 23:59:59
SqlWindowTasks ==
    {t \in tasks : InWindow(t.updated_at, DateTruncDay(now),
                            DateTruncDay(now) + DayTicks - TicksPerSec)}

\* today's window of the service: 00:00:00.000 .. 23:59:59.999
JsWindowTasks ==
    {t \in tasks : InWindow(t.updated_at, DateTruncDay(now),
                            DateTruncDay(now) + DayTicks - TicksPerMs)}

SqlReported == sql_run > 0
SvcReported == svc_report # NoReport

DeletedInSqlWindow(d) ==
    InWindow(d.deleted_at, DateTruncDay(now), DateTruncDay(now) + DayTicks - TicksPerSec)

DeletedInJsWindow(d) ==
    InWindow(d.deleted_at, DateTruncDay(now), DateTruncDay(now) + DayTicks - TicksPerMs)

RegularDeletedInSqlWindow(d) == d.task_type = "regular" /\ DeletedInSqlWindow(d)

RegularDeletedInJsWindow(d) == d.task_type = "regular" /\ DeletedInJsWindow(d)

WrittenByDeleteTask(d) == d.task_id # 0

C6_TestQueriesMatchReport ==
    SqlReported =>
       /\ sql_report.totalTasks = Test6.totalTasks
       /\ sql_report.completedTasks = Test6.completedTasks
       /\ sql_report.pendingTasks = Test6.pendingTasks
       /\ sql_report.blockedTasks = Test6.blockedTasks
       /\ sql_report.deletedTasks = Test7

CeilDiv(a, b) == (a + b - 1) \div b

BatchOf(j) == ((j - 1) \div batchSize) + 1

\* the rows of the queue that belong to batches inserted without error
InsertedRows ==
    LET kept == {j \in 1..Len(svc_queue) :
                    /\ BatchOf(j) <= Len(svc_batches)
                    /\ ~svc_batches[BatchOf(j)].error}
    IN  SelectSeq([j \in 1..Len(svc_queue) |-> [row |-> svc_queue[j], keep |-> j \in kept]],
                  LAMBDA x : x.keep)

\* C7: the service issues the batches in order, the k-th batch holding the
\* rows (k-1)*100+1 .. min(k*100, n) of the notifications array, so at most
\* 100 rows each and every row in exactly one batch; an insert error is
\* logged, the later batches are still issued, the rows of the other
\* batches are inserted, and the call resolves.
C7_BatchesOfHundredLogAndContinue ==
    /\ \A k \in DOMAIN svc_batches :
          /\ svc_batches[k].from = (k - 1) * batchSize
          /\ svc_batches[k].size = Min(batchSize, Len(svc_queue) - (k - 1) * batchSize)
          /\ svc_batches[k].size >= 1 /\ svc_batches[k].size <= batchSize
    /\ svc_pc = "batches" => svc_i = Len(svc_batches) * batchSize
    /\ Len(svc_batches) <= CeilDiv(Len(svc_queue), batchSize)
    /\ svc_result # "rejected"
    /\ svc_run > 0 =>
          /\ Len(NotificationsOfRun(svc_run)) = Len(InsertedRows)
          /\ \A j \in 1..Len(InsertedRows) :
                NotificationsOfRun(svc_run)[j] = InsertedRows[j].row
          /\ CountWhere(svc_log, LAMBDA m : m = "Error inserting notifications batch")
                = CountWhere(svc_batches, LAMBDA b : b.error)
    /\ svc_result = "resolved" =>
          Len(svc_batches) = CeilDiv(Len(svc_queue), batchSize)

C7_Witness ==
    /\ svc_result = "resolved"
    /\ Len(svc_batches) = 3
    /\ svc_batches[1].error /\ ~svc_batches[2].error /\ ~svc_batches[3].error
    /\ svc_batches[3].size = 1
    /\ Len(NotificationsOfRun(svc_run)) = batchSize + 1

\* C8: when the tasks query returns an error the call rejects, no report is
\* produced and sendDailyReportToAllUsers inserts no notification; when only
\* the deleted_tasks query returns an error the call resolves with
\* deletedTasks = 0 and the other counts as without the error.
C8_TasksErrorRejectsDeletedErrorDefaults ==
    svc_run > 0 =>
       /\ "tasks" \in faults =>
             /\ svc_result = "rejected"
             /\ svc_report = NoReport
             /\ NotificationsOfRun(svc_run) = <<>>
             /\ svc_batches = <<>>
       /\ ("tasks" \notin faults /\ "deleted_tasks" \in faults) =>
             /\ svc_result # "rejected"
             /\ svc_report.deletedTasks = 0
             /\ svc_report.totalTasks = Cardinality(JsWindowTasks)
             /\ svc_report.completedTasks =
                   Cardinality({t \in JsWindowTasks : t.status = "completed"})
             /\ svc_report.pendingTasks =
                   Cardinality({t \in JsWindowTasks : t.status # "completed"})
             /\ svc_report.blockedTasks =
                   Cardinality({t \in JsWindowTasks :
                                   t.status # "completed" /\ t.due_date < JsDate(now)})

C8_Witness ==
    /\ faults = {"deleted_tasks"}
    /\ svc_result = "resolved"
    /\ svc_report.deletedTasks = 0 /\ svc_report.totalTasks = 2
    /\ CountWhere(deleted_tasks, RegularDeletedInJsWindow) = 1
    /\ Len(NotificationsOfRun(svc_run)) >= 1

SqlPosts == SelectSeq(http_posts, LAMBDA p : p.src = "sql")

\* C9: when the function attempts the POST all notifications of the
\* invocation are already inserted; a failed POST does not make the
\* function fail and the notifications of the invocation stay.
C9_WebhookFailureKeepsNotifications ==
    /\ \A i \in DOMAIN SqlPosts : SqlPosts[i].notified = Test5Total
    /\ sql_result # "error"
    /\ SqlFinished =>
          /\ sql_result = "ok"
          /\ Len(NotificationsOfRun(sql_run)) = Test5Total

C9_Witness ==
    /\ SqlFinished
    /\ sql_result = "ok"
    /\ SqlPosts # <<>>
    /\ ~SqlPosts[Len(SqlPosts)].ok
    /\ SqlPosts[Len(SqlPosts)].run = sql_run
    /\ Len(NotificationsOfRun(sql_run)) = 3

\* C10: whenever the webhook_settings row has is_enabled = false the
\* function makes no HTTP POST, whatever the stored url is.
C10_DisabledWebhookNeverPosts ==
    (webhook_settings.present /\ webhook_settings.is_enabled = "false")
       => SqlPosts = <<>>

SetupJobs == JobsNamed(cron_job, SetupJobName)

\* C11: after every completed run of the setup script, the first or a later
\* one, cron.job holds exactly one job named 'daily-performance-report',
\* with schedule '0 20 * * *' and the command that calls
\* send_daily_performance_report().
C11_SetupLeavesExactlyOneJob ==
    setup_pc = "done" =>
       /\ setup_runs >= 1
       /\ Len(SetupJobs) = 1
       /\ SetupJobs[1].schedule = "0 20 * * *"
       /\ SetupJobs[1].command = "SELECT send_daily_performance_report();"

C11_Witness ==
    /\ setup_pc = "done"
    /\ setup_runs = 2
    /\ Len(cron_job) = 2
    /\ Len(SetupJobs) = 1

RECURSIVE SumOver(_, _)
SumOver(entries, field) ==
    IF entries = <<>> THEN 0
    ELSE entries[1][field] + SumOver(Tail(entries), field)

TasksOfUserToday(userId) == {t \in JsWindowTasks : t.user_id = userId}

\* C12: the per-user breakdown has exactly one entry per distinct user_id
\* among today's tasks; every entry has totalTasks >= 1, completed +
\* pending = totalTasks and blocked <= pending, and counts that user's
\* tasks; the sums of totalTasks, completed, pending and blocked over the
\* entries are the report's totalTasks, completedTasks, pendingTasks and
\* blockedTasks.
C12_BreakdownPartitionsTheReport ==
    SvcReported =>
       LET byUser == svc_report.byUser
       IN  /\ {byUser[i].userId : i \in DOMAIN byUser} = {t.user_id : t \in JsWindowTasks}
           /\ Len(byUser) = Cardinality({t.user_id : t \in JsWindowTasks})
           /\ \A i \in DOMAIN byUser :
                 /\ byUser[i].totalTasks >= 1
                 /\ byUser[i].completed + byUser[i].pending = byUser[i].totalTasks
                 /\ byUser[i].blocked <= byUser[i].pending
                 /\ byUser[i].totalTasks =
                       Cardinality(TasksOfUserToday(byUser[i].userId))
                 /\ byUser[i].completed =
                       Cardinality({t \in TasksOfUserToday(byUser[i].userId) :
                                       t.status = "completed"})
           /\ SumOver(byUser, "totalTasks") = svc_report.totalTasks
           /\ SumOver(byUser, "completed") = svc_report.completedTasks
           /\ SumOver(byUser, "pending") = svc_report.pendingTasks
           /\ SumOver(byUser, "blocked") = svc_report.blockedTasks

C12_Witness ==
    /\ SvcReported
    /\ Len(svc_report.byUser) = 2
    /\ svc_report.byUser[1].completed = 1
    /\ svc_report.byUser[2].blocked = 1
    /\ svc_report.byUser[2].userName = "Unknown"

ListedUsers == SelectSeq(fmt_lines, LAMBDA l : l.kind = "user")

TitleLines == SelectSeq(fmt_lines, LAMBDA l : l.kind = "title")

ListedIds == {ListedUsers[k].userId : k \in DOMAIN ListedUsers}

\* C13: the message lists at most 5 users as Top Performers, each an entry
\* of byUser listed once; every listed user has completed >= that of every
\* user not listed, and the lines are in non-increasing order of completed;
\* the section is there exactly when byUser is not empty; the byUser array
\* of the report is in its original order after the call.
C13_TopPerformersAreTheBestFive ==
    fmt_pc = "done" =>
       /\ Len(ListedUsers) <= 5
       /\ Len(ListedUsers) = Min(5, Len(fmt_original))
       /\ Cardinality(ListedIds) = Len(ListedUsers)
       /\ \A k \in DOMAIN ListedUsers :
             /\ ListedUsers[k].index = k
             /\ \E i \in DOMAIN fmt_original :
                   /\ fmt_original[i].userId = ListedUsers[k].userId
                   /\ fmt_original[i].completed = ListedUsers[k].completed
                   /\ fmt_original[i].totalTasks = ListedUsers[k].totalTasks
             /\ \A i \in DOMAIN fmt_original :
                   fmt_original[i].userId \notin ListedIds
                      => ListedUsers[k].completed >= fmt_original[i].completed
             /\ \A j \in DOMAIN ListedUsers :
                   k < j => ListedUsers[k].completed >= ListedUsers[j].completed
       /\ (fmt_original = <<>>) <=> (TitleLines = <<>>)
       /\ fmt_original = <<>> => ListedUsers = <<>>
       /\ fmt_byUser = fmt_original

C13_Witness ==
    /\ fmt_pc = "done"
    /\ Len(fmt_original) = 6
    /\ fmt_original[1].completed = 0
    /\ fmt_original[2].completed = 1
    /\ fmt_original[6].completed = 2
    /\ Len(ListedUsers) = 5
    /\ ListedUsers[1].userId = 6
    /\ 1 \notin ListedIds


\* C14: for a user who is neither admin nor project manager, the task list
\* never holds a task whose user_id differs from the user's id.
C14_MemberSeesOnlyOwnTasks ==
    (user # NoUser /\ ~IsPrivileged(user))
       => \A i \in DOMAIN taskList : taskList[i].user_id = user.id

\* a member's list holds an own task after the INSERT of another user's task
\* has been handled
C14_Witness ==
    /\ Quiescent
    /\ user = [id |-> 1, role |-> "member"]
    /\ db_ops >= 1
    /\ \E t \in daily_tasks : t.user_id # user.id /\ t.id = next_id - 1
    /\ taskList # <<>>


\* a handler of a project manager finishes for another user's task that
\* matches the filters, which are still the filters the handler started with
ManagerHandles(h) ==
    /\ HandlerApply(h)
    /\ h.u = user
    /\ h.u.role = "project_manager"
    /\ h.f = filters
    /\ h.row.user_id # h.u.id
    /\ MatchesQuery(h.row, filters, user)

\* C15: a project manager sees all users' tasks as an admin does: the handler
\* of a realtime INSERT of another user's task that matches the active filters
\* adds the task to the list, and the handler of a realtime UPDATE of another
\* user's listed task that still matches the filters keeps it in the list.
C15_ManagerListFollowsOtherUsersTasks ==
    [][\A h \in handlers :
          ManagerHandles(h) =>
             /\ h.eventType = "INSERT" => h.row.id \in IdsOf(taskList')
             /\ (h.eventType = "UPDATE" /\ h.row.id \in IdsOf(taskList))
                   => h.row.id \in IdsOf(taskList')]_vars


\* the six filters, as the query of fetchTasks applies them
SatisfiesFilters(task, f) ==
    /\ (f.status # "" => task.status = f.status)
    /\ (f.member # 0 => task.user_id = f.member)
    /\ (f.date # "" => task.task_date = f.date)
    /\ (f.priority # "" => task.priority = f.priority)
    /\ (f.project # "" => task.project_id = f.project)
    /\ (f.search # <<>> => Ilike(task.task_name, f.search))

TasksOf(list) == {list[i] : i \in DOMAIN list}

\* C16: whenever loading is false, every task in the list satisfies every
\* active filter (status, member, date, priority, project, search), also when
\* a realtime handler that started before a filter change finishes after it:
\* a task that a handler puts into the list while loading is false satisfies
\* the active filters.
C16_HandlersKeepListWithinFilters ==
    [][\A h \in handlers :
          (HandlerApply(h) /\ ~loading')
             => \A t \in TasksOf(taskList') \ TasksOf(taskList) :
                   SatisfiesFilters(t, filters')]_vars


\* C17: the task list never holds two tasks with the same id, whatever the
\* interleaving of fetchTasks responses, repeated INSERT events and handlers.
C17_ListHasNoDuplicateIds ==
    \A i, j \in DOMAIN taskList :
        taskList[i].id = taskList[j].id => i = j

\* both deliveries of a repeated INSERT event have been handled, and the list
\* holds the inserted task
C17_Witness ==
    /\ Quiescent
    /\ db_ops = 1
    /\ next_id - 1 \in IdsOf(taskList)
    /\ redelivered = {1}


\* C18: once the DELETE event of an id has been handled, the list never holds
\* that id again, also when an INSERT or UPDATE handler of the id started its
\* refetch before the DELETE and finishes after it.
\* Stated over the handlers: a handler that finishes for an id whose DELETE
\* event has been handled leaves the id out of the list.
C18_DeletedIdNeverReturns ==
    [][\A h \in handlers :
          (HandlerApply(h) /\ h.id \in deletes_handled)
             => h.id \notin IdsOf(taskList')]_vars


\* C19: updateTask sends the 'daily_task_updated' webhook exactly when the
\* update succeeded and set a status that differs from the task's previous
\* status, and the webhook's old_status is that previous status, whatever the
\* list was when the callback was created. Stated for the calls made while
\* the list holds the task with the status the row has.
C19_WebhookIffStatusChanged ==
    (update_call.id # 0 /\ update_call.listed = update_call.previous)
       => /\ update_call.webhook <=>
                /\ update_call.succeeded
                /\ update_call.status # ""
                /\ update_call.status # update_call.previous
          /\ update_call.webhook => update_call.old_status = update_call.previous


\* C20: after a deleteTask(id) call, a deleted_tasks record written by the
\* call exists exactly when the call removed the row from daily_tasks; when
\* the delete query fails or the call sets 'Task not found', deleted_tasks
\* and daily_tasks are unchanged and no webhook is sent.
C20_AuditRecordIffRowRemoved ==
    [][\A id \in 1..MaxDaily :
          DeleteTask(id) =>
             /\ deleted_tasks' # deleted_tasks
                   <=> (id \in IdsOf(OrderByIdDesc(daily_tasks))
                        /\ id \notin IdsOf(OrderByIdDesc(daily_tasks')))
             /\ error' \in {"Error deleting daily task", "Task not found"}
                   => /\ UNCHANGED <<deleted_tasks, daily_tasks>>
                      /\ UNCHANGED <<task_webhook_calls, http_posts>>]_vars


\* the calls of sendTaskWebhook that made a request, and the requests
PostedCalls == SelectSeq(task_webhook_calls, LAMBDA c : c.posted)
TaskPosts   == SelectSeq(http_posts, LAMBDA p : p.run = 0)

\* every call resolved to a boolean: true exactly when its POST was made and
\* answered ok; no POST and false when the setting is disabled or has no url
TaskWebhookResolves ==
    /\ \A i \in DOMAIN task_webhook_calls :
          LET c == task_webhook_calls[i]
          IN  /\ c.result \in BOOLEAN
              /\ c.posted <=> (GetWebhookSetting.enabled /\ GetWebhookSetting.url # "")
              /\ ~c.posted => ~c.result
    /\ Len(PostedCalls) = Len(TaskPosts)
    /\ \A k \in DOMAIN PostedCalls :
          /\ PostedCalls[k].result <=> TaskPosts[k].ok
          /\ TaskPosts[k].url = GetWebhookSetting.url

\* a createTask, updateTask or deleteTask call that reaches sendTaskWebhook
CallSendsTaskWebhook ==
    /\ \/ \E owner \in TaskOwners, project \in ProjectIds : CreateTask(owner, project)
       \/ \E id \in 1..MaxDaily, updates \in UpdateChoices : UpdateTask(id, updates)
       \/ \E id \in 1..MaxDaily : DeleteTask(id)
    /\ Len(task_webhook_calls') = Len(task_webhook_calls) + 1

\* C21: sendTaskWebhook always resolves to a boolean, true exactly when an
\* HTTP POST was made and the response was ok, and makes no request and
\* resolves false when the setting is disabled or has no url; a createTask,
\* updateTask or deleteTask call that sends the webhook ends without error
\* whatever the webhook call resolved to.
C21_TaskWebhookResolvesBoolean ==
    /\ []TaskWebhookResolves
    /\ [][CallSendsTaskWebhook => error' = NULL]_vars

\* a call resolved true and a later one, whose POST failed, resolved false,
\* and the task operation that made it ended without error
C21_Witness ==
    /\ Len(task_webhook_calls) = 2
    /\ task_webhook_calls[1].result
    /\ task_webhook_calls[2].posted
    /\ ~task_webhook_calls[2].result
    /\ error = NULL


\* C22: the edge function answers every request with exactly one response.
\* An OPTIONS request gets 'ok' with the CORS headers and makes no RPC. Any
\* other request makes no RPC and gets status 500 with success = false and
\* the error message when an environment variable is missing; otherwise it
\* calls send_daily_performance_report exactly once and gets status 200 with
\* success = true if the RPC returned no error, and status 500 with
\* success = false and the error's message if it returned an error.
C22_EdgeFunctionAnswersOnce ==
    /\ edge_rpc_calls <= 1
    /\ \A i \in DOMAIN edge_log :
          LET r == edge_log[i]
              response == r.responses[1]
          IN  /\ Len(r.responses) = 1
              /\ response.cors
              /\ r.ran <= r.calls
              /\ IF r.method = "OPTIONS"
                 THEN r.calls = 0 /\ response.body = "ok" /\ response.status = 200
                 ELSE IF edge_env.url \in {"undefined", ""}
                         \/ edge_env.key \in {"undefined", ""}
                 THEN /\ r.calls = 0
                      /\ response.status = 500 /\ response.success = "false"
                      /\ response.error = MissingEnvMessage
                 ELSE /\ r.calls = 1
                      /\ r.rpc = "data"
                            <=> (response.status = 200 /\ response.success = "true")
                      /\ r.rpc # "data"
                            <=> /\ response.status = 500
                                /\ response.success = "false"
                                /\ response.error = RpcErrorMessage(r.rpc)

\* a POST whose RPC ran the SQL function and returned no error got 200, and
\* a later one whose RPC returned an error got 500
C22_Witness ==
    /\ Len(edge_log) = 2
    /\ edge_log[1].method = "POST" /\ edge_log[1].rpc = "data" /\ edge_log[1].ran = 1
    /\ edge_log[1].responses[1].status = 200
    /\ edge_log[2].method = "POST" /\ edge_log[2].rpc = "error"
    /\ edge_log[2].responses[1].status = 500


\* a fetchTasks call begins: the component calls it or the filters change
FetchTasksBegins ==
    FetchTasks \/ \E f \in FilterChoices : SetFilters(f)

\* rows in the order of the query: created_at, and so id, descending
IsDescending(list) ==
    \A i, j \in DOMAIN list : i < j => list[i].id > list[j].id

\* what C23 says of every path but the end of a successful call
FetchTasksPaths ==
    /\ (FetchTasksBegins /\ user = NoUser)
          => (loading' = FALSE /\ UNCHANGED <<taskList, error, fetches>>)
    /\ (FetchTasksBegins /\ user # NoUser) => error' = NULL
    /\ \A r \in fetches :
          FetchDone(r) =>
             /\ loading' = FALSE
             /\ r.outcome \in {"error", "throws"}
                   => (taskList' = <<>> /\ error' # NULL)
             /\ r.outcome = "ok" => (taskList' = r.data /\ IsDescending(taskList'))

\* C23 as stated: every fetchTasks call ends with loading = false; a query
\* error or an exception sets the list to [] and error to non-null; on
\* success error is null and the list holds the fetched rows in the order
\* returned.
C23_FetchTasksEndsEveryPath ==
    [][/\ FetchTasksPaths
       /\ \A r \in fetches :
             (FetchDone(r) /\ r.outcome = "ok") => error' = NULL]_vars

\* C23, amended: as stated, but on success the call leaves error as it is:
\* null, as the call set it when it began, unless another operation of the
\* hook has set it while the call was in flight.
C23_FetchTasksEndsEveryPathAmended ==
    [][/\ FetchTasksPaths
       /\ \A r \in fetches :
             (FetchDone(r) /\ r.outcome = "ok") => error' = error]_vars

\* deleteTask(1) failed at its delete query after the filters changed to
\* status = 'completed' and before the fetch of that change ended with
\* success: the list holds the one completed row and error is deleteTask's
C23_Witness ==
    /\ filters = [NoFilters EXCEPT !.status = "completed"]
    /\ filter_changes = 1
    /\ fetches = {}
    /\ ~loading
    /\ IdsOf(taskList) = {2}
    /\ Len(deleted_tasks) = 1
    /\ deleted_tasks[1].task_id = 1
    /\ error = "Error deleting daily task"


\* C24: when the filters change while an earlier fetchTasks is in flight, then
\* once every fetch in flight has settled the list is the result of the fetch
\* issued for the latest filters. Stated for a table that no client has
\* changed, so that every fetch for the latest filters returns the same rows.
C24_LatestFetchWins ==
    (/\ fetches = {}
     /\ filter_changes >= 1
     /\ db_ops = 0
     /\ user # NoUser
     /\ faults = {})
       => taskList = FetchQueryResult(filters, user)

====
